---- MODULE Spec2Model ----
(***************************************************************************)
(* A-SABR: contact resource managers, the node-graph Dijkstra search and   *)
(* the CGR / SPSN routers, as state machines.                              *)
(*                                                                         *)
(* Dates, durations and volumes are f64 in the source.  They are integers  *)
(* here; every rate is 1 or 2 and every volume handed to a manager of     *)
(* rate 2 is even, so each quotient volume / rate the code forms is exact  *)
(* and \div computes what the f64 division computes.                       *)
(***************************************************************************)
EXTENDS Integers, Sequences, FiniteSets, TLC

\* ------------------------------------------------------------------ bounds
MaxTime == 15
MaxSize == 6
MaxOps == 2
DateMax == 100000
MaxNode == 3
MaxRoutes == 2
MaxEntries == 2

\* ------------------------------------------------------- program constants
NbPriorities == 3

Max2(a, b) == IF a > b THEN a ELSE b
Min2(a, b) == IF a < b THEN a ELSE b

\* ----------------------------------------------------- ContactManagerTxData
NoTx == [ok |-> FALSE, tx_start |-> 0, tx_end |-> 0, delay |-> 0,
         expiration |-> 0, arrival |-> 0]

ContactManagerTxData(tx_start, tx_end, delay, expiration, arrival) ==
    [ok |-> TRUE, tx_start |-> tx_start, tx_end |-> tx_end, delay |-> delay,
     expiration |-> expiration, arrival |-> arrival]

\* ------------------------------------------- the macro instantiations
EVLManager == [add_delay |-> FALSE, auto_update |-> TRUE]
ETOManager == [add_delay |-> TRUE, auto_update |-> FALSE]
QDManager == [add_delay |-> TRUE, auto_update |-> TRUE]
PEVLManager == [add_delay |-> FALSE, auto_update |-> TRUE]
PETOManager == [add_delay |-> TRUE, auto_update |-> FALSE]
PQDManager == [add_delay |-> TRUE, auto_update |-> TRUE]

BasicKinds == {"EVL", "ETO", "QD"}
PriorityKinds == {"PEVL", "PETO", "PQD"}

Rules(kind) ==
    CASE kind = "EVL" -> EVLManager
      [] kind = "ETO" -> ETOManager
      [] kind = "QD" -> QDManager
      [] kind = "PEVL" -> PEVLManager
      [] kind = "PETO" -> PETOManager
      [] kind = "PQD" -> PQDManager

\* ---------------------------------- generate_basic_volume_manager!
BasicNew(kind, rate, delay) ==
    [kind |-> kind, rate |-> rate, delay |-> delay, queue_size |-> 0,
     original_volume |-> 0]

BasicTryInit(m, info) ==
    [m EXCEPT !.original_volume = (info.end - info.start) * m.rate]

\* a dry run whose arrival leaves the delay out
BasicDryRunTxNoDelay(m, info, at_time, bundle) ==
    IF bundle.size > m.original_volume - m.queue_size THEN NoTx
    ELSE LET base == IF info.start > at_time THEN info.start ELSE at_time
             tx_start == IF Rules(m.kind).add_delay
                         THEN base + (m.queue_size \div m.rate)
                         ELSE base
             tx_end == tx_start + (bundle.size \div m.rate)
         IN IF tx_end > info.end THEN NoTx
            ELSE ContactManagerTxData(tx_start, tx_end, m.delay, info.end,
                                      tx_end)

\* a dry run that never offsets the start by the queue
BasicDryRunTxNoQueue(m, info, at_time, bundle) ==
    IF bundle.size > m.original_volume - m.queue_size THEN NoTx
    ELSE LET base == IF info.start > at_time THEN info.start ELSE at_time
             tx_start == base
             tx_end == tx_start + (bundle.size \div m.rate)
         IN IF tx_end > info.end THEN NoTx
            ELSE ContactManagerTxData(tx_start, tx_end, m.delay, info.end,
                                      m.delay + tx_end)

\* a dry run that starts at the contact's start whatever at_time is
BasicDryRunTxFromStart(m, info, at_time, bundle) ==
    IF bundle.size > m.original_volume - m.queue_size THEN NoTx
    ELSE LET base == info.start
             tx_start == IF Rules(m.kind).add_delay
                         THEN base + (m.queue_size \div m.rate)
                         ELSE base
             tx_end == tx_start + (bundle.size \div m.rate)
         IN IF tx_end > info.end THEN NoTx
            ELSE ContactManagerTxData(tx_start, tx_end, m.delay, info.end,
                                      m.delay + tx_end)

\* dry_run_tx of the macro: [ok, tx_start, tx_end, delay, expiration, arrival]
BasicDryRunTx(m, info, at_time, bundle) ==
    IF bundle.size > m.original_volume - m.queue_size THEN NoTx
    ELSE LET base == IF info.start > at_time THEN info.start ELSE at_time
             tx_start == IF Rules(m.kind).add_delay
                         THEN base + (m.queue_size \div m.rate)
                         ELSE base
             tx_end == tx_start + (bundle.size \div m.rate)
         IN IF tx_end > info.end THEN NoTx
            ELSE ContactManagerTxData(tx_start, tx_end, m.delay, info.end,
                                      m.delay + tx_end)

\* a schedule that counts the bundle in the queue under every manager
BasicScheduleTxCounting(m, info, at_time, bundle) ==
    LET data == BasicDryRunTx(m, info, at_time, bundle)
    IN IF data.ok
       THEN [res |-> data, mgr |-> [m EXCEPT !.queue_size = @ + bundle.size]]
       ELSE [res |-> NoTx, mgr |-> m]

\* schedule_tx of the macro: [res, mgr]
BasicScheduleTx(m, info, at_time, bundle) ==
    LET data == BasicDryRunTx(m, info, at_time, bundle)
    IN IF data.ok
       THEN [res |-> data,
             mgr |-> IF Rules(m.kind).auto_update
                     THEN [m EXCEPT !.queue_size = @ + bundle.size]
                     ELSE m]
       ELSE [res |-> NoTx, mgr |-> m]

\* enqueue / dequeue exist on the manually updated managers only; a panic
\* aborts the call and leaves the manager as it was.
BasicEnqueue(m, bundle) ==
    LET new_size == m.queue_size + bundle.size
    IN IF new_size > m.original_volume
       THEN [panic |-> TRUE, mgr |-> m]
       ELSE [panic |-> FALSE, mgr |-> [m EXCEPT !.queue_size = new_size]]

BasicDequeue(m, bundle) ==
    IF m.queue_size < bundle.size
    THEN [panic |-> TRUE, mgr |-> m]
    ELSE [panic |-> FALSE, mgr |-> [m EXCEPT !.queue_size = @ - bundle.size]]

\* ------------------------ generate_basic_volume_manager_with_priority!
\* queue_size and mav are arrays of 3; index i of the source is i + 1 here.
PriorityNew(kind, rate, delay, original_mav) ==
    [kind |-> kind, rate |-> rate, delay |-> delay, queue_size |-> <<0, 0, 0>>,
     original_volume |-> 0, mav |-> original_mav]

PriorityTryInit(m, info) ==
    [m EXCEPT !.original_volume = (info.end - info.start) * m.rate]

get_vol(vols, priority) ==
    IF priority + 1 \in DOMAIN vols THEN vols[priority + 1] ELSE 0

\* for j in 0..i { mav[j] = 0 }
ZeroBelow(mav, i) ==
    [k \in DOMAIN mav |-> IF k - 1 < i THEN 0 ELSE mav[k]]

RECURSIVE UpdateMavFrom(_, _, _)
\* the body of `for i in (0..p).rev()`, entered with the next i to visit
UpdateMavFrom(mav, vol, i) ==
    IF i < 0 THEN mav
    ELSE IF mav[i + 1] > vol
         THEN UpdateMavFrom([mav EXCEPT ![i + 1] = @ - vol], vol, i - 1)
         ELSE ZeroBelow(mav, i)

update_mav(mav, vol, priority) ==
    IF priority < Len(mav) THEN UpdateMavFrom(mav, vol, priority - 1) ELSE mav

RECURSIVE SumFrom(_, _)
\* for i in p..queue_size.len() { total += queue_size[i] }
SumFrom(queue_size, p) ==
    IF p + 1 > Len(queue_size) THEN 0
    ELSE queue_size[p + 1] + SumFrom(queue_size, p + 1)

\* a dry run that offsets the start by the queue from max(at_time, start) for
\* every manager that adds the queue delay
PriorityDryRunTxFromBase(m, info, at_time, bundle) ==
    LET base == IF info.start > at_time THEN info.start ELSE at_time
        total_queue_size == SumFrom(m.queue_size, bundle.priority)
        tx_start ==
            IF Rules(m.kind).add_delay
            THEN base + (total_queue_size \div m.rate)
            ELSE base
        tx_end == tx_start + (bundle.size \div m.rate)
        arrival == m.delay + tx_end
        max_volume == (tx_end - tx_start) * m.rate
    IN IF tx_end > info.end THEN NoTx
       ELSE IF arrival > bundle.expiration THEN NoTx
       ELSE IF bundle.size > Min2(max_volume, get_vol(m.mav, bundle.priority))
            THEN NoTx
       ELSE ContactManagerTxData(tx_start, tx_end, m.delay, info.end, arrival)

\* a dry run that counts the queue of every priority ahead of the bundle
PriorityDryRunTxWholeQueue(m, info, at_time, bundle) ==
    LET base == IF info.start > at_time THEN info.start ELSE at_time
        total_queue_size == SumFrom(m.queue_size, 0)
        tx_start ==
            IF Rules(m.kind).add_delay
            THEN IF ~Rules(m.kind).auto_update
                 THEN base + (total_queue_size \div m.rate)
                 ELSE IF info.start > at_time
                      THEN info.start + (total_queue_size \div m.rate)
                      ELSE info.start
            ELSE base
        tx_end == tx_start + (bundle.size \div m.rate)
        arrival == m.delay + tx_end
        max_volume == (tx_end - tx_start) * m.rate
    IN IF tx_end > info.end THEN NoTx
       ELSE IF arrival > bundle.expiration THEN NoTx
       ELSE IF bundle.size > Min2(max_volume, get_vol(m.mav, bundle.priority))
            THEN NoTx
       ELSE ContactManagerTxData(tx_start, tx_end, m.delay, info.end, arrival)

\* dry_run_tx of the priority macro
PriorityDryRunTx(m, info, at_time, bundle) ==
    LET base == IF info.start > at_time THEN info.start ELSE at_time
        total_queue_size == SumFrom(m.queue_size, bundle.priority)
        tx_start ==
            IF Rules(m.kind).add_delay
            THEN IF ~Rules(m.kind).auto_update
                 THEN base + (total_queue_size \div m.rate)
                 ELSE IF info.start > at_time
                      THEN info.start + (total_queue_size \div m.rate)
                      ELSE info.start
            ELSE base
        tx_end == tx_start + (bundle.size \div m.rate)
        arrival == m.delay + tx_end
        max_volume == (tx_end - tx_start) * m.rate
    IN IF tx_end > info.end THEN NoTx
       ELSE IF arrival > bundle.expiration THEN NoTx
       ELSE IF bundle.size > Min2(max_volume, get_vol(m.mav, bundle.priority))
            THEN NoTx
       ELSE ContactManagerTxData(tx_start, tx_end, m.delay, info.end, arrival)

PriorityScheduleTx(m, info, at_time, bundle) ==
    LET data == PriorityDryRunTx(m, info, at_time, bundle)
        m1 == [m EXCEPT !.mav = update_mav(m.mav, bundle.size, bundle.priority)]
    IN IF data.ok
       THEN [res |-> data,
             mgr |-> IF Rules(m.kind).auto_update
                     THEN [m1 EXCEPT !.queue_size[bundle.priority + 1] =
                                         @ + bundle.size]
                     ELSE m1]
       ELSE [res |-> NoTx, mgr |-> m]

PriorityEnqueue(m, bundle) ==
    [panic |-> FALSE,
     mgr |-> [m EXCEPT !.queue_size[bundle.priority + 1] = @ + bundle.size]]

PriorityDequeue(m, bundle) ==
    [panic |-> FALSE,
     mgr |-> [m EXCEPT !.queue_size[bundle.priority + 1] = @ - bundle.size]]

\* --------------------------------------------- contact_manager/segmentation
Segment(start, end, val) == [start |-> start, end |-> end, val |-> val]

\* Vec::insert(index, elem), index counted from 0
InsertAt(v, index, elem) ==
    SubSeq(v, 1, index) \o <<elem>> \o SubSeq(v, index + 1, Len(v))

RECURSIVE GetDelayFrom(_, _, _)
GetDelayFrom(tx_end, delay_intervals, k) ==
    IF k > Len(delay_intervals) THEN DateMax
    ELSE IF tx_end > delay_intervals[k].end
         THEN GetDelayFrom(tx_end, delay_intervals, k + 1)
         ELSE delay_intervals[k].val

get_delay(tx_end, delay_intervals) == GetDelayFrom(tx_end, delay_intervals, 1)

NoDate == [some |-> FALSE, v |-> 0]
SomeDate(d) == [some |-> TRUE, v |-> d]

RECURSIVE GetTxEndFrom(_, _, _, _, _)
GetTxEndFrom(rate_intervals, at_time, volume, deadline, k) ==
    IF k > Len(rate_intervals) THEN NoDate
    ELSE LET rate_seg == rate_intervals[k]
             tx_end == at_time + (volume \div rate_seg.val)
         IN IF rate_seg.end < at_time
            THEN GetTxEndFrom(rate_intervals, at_time, volume, deadline, k + 1)
            ELSE IF tx_end > deadline THEN NoDate
            ELSE IF tx_end > rate_seg.end
                 THEN GetTxEndFrom(rate_intervals, rate_seg.end,
                                   volume - rate_seg.val * (rate_seg.end - at_time),
                                   deadline, k + 1)
                 ELSE SomeDate(tx_end)

get_tx_end(rate_intervals, at_time, volume, deadline) ==
    GetTxEndFrom(rate_intervals, at_time, volume, deadline, 1)

RECURSIVE NoHoles(_, _, _)
\* the `for inter in intervals` loop of try_init: each segment starts at `time`
NoHoles(intervals, time, k) ==
    IF k > Len(intervals) THEN TRUE
    ELSE IF intervals[k].start # time THEN FALSE
         ELSE NoHoles(intervals, intervals[k].end, k + 1)

\* a try_init that does not compare the end of the last delay segment with
\* the end of the contact
SegTryInitOpenEnd(rate_intervals, delay_intervals, other_intervals, default, info) ==
    IF ~NoHoles(rate_intervals, info.start, 1) THEN [ok |-> FALSE, other |-> other_intervals]
    ELSE IF Len(rate_intervals) = 0 THEN [ok |-> FALSE, other |-> other_intervals]
    ELSE IF rate_intervals[Len(rate_intervals)].end # info.end
         THEN [ok |-> FALSE, other |-> other_intervals]
    ELSE IF ~NoHoles(delay_intervals, info.start, 1)
         THEN [ok |-> FALSE, other |-> other_intervals]
    ELSE IF Len(delay_intervals) = 0 THEN [ok |-> FALSE, other |-> other_intervals]
    ELSE IF Len(other_intervals) # 0 THEN [ok |-> FALSE, other |-> other_intervals]
    ELSE [ok |-> TRUE,
          other |-> Append(other_intervals, Segment(info.start, info.end, default))]

\* segmentation::try_init: the new list of other_intervals, or a refusal
SegTryInit(rate_intervals, delay_intervals, other_intervals, default, info) ==
    IF ~NoHoles(rate_intervals, info.start, 1) THEN [ok |-> FALSE, other |-> other_intervals]
    ELSE IF Len(rate_intervals) = 0 THEN [ok |-> FALSE, other |-> other_intervals]
    ELSE IF rate_intervals[Len(rate_intervals)].end # info.end
         THEN [ok |-> FALSE, other |-> other_intervals]
    ELSE IF ~NoHoles(delay_intervals, info.start, 1)
         THEN [ok |-> FALSE, other |-> other_intervals]
    ELSE IF Len(delay_intervals) = 0 THEN [ok |-> FALSE, other |-> other_intervals]
    ELSE IF delay_intervals[Len(delay_intervals)].end # info.end
         THEN [ok |-> FALSE, other |-> other_intervals]
    ELSE IF Len(other_intervals) # 0 THEN [ok |-> FALSE, other |-> other_intervals]
    ELSE [ok |-> TRUE,
          other |-> Append(other_intervals, Segment(info.start, info.end, default))]

\* ------------------------------------------------------ SegmentationManager
SegNew(rate_intervals, delay_intervals) ==
    [kind |-> "Seg", free_intervals |-> <<>>, rate_intervals |-> rate_intervals,
     delay_intervals |-> delay_intervals]

RECURSIVE SegDryRunFrom(_, _, _, _)
SegDryRunFrom(m, at_time, bundle, k) ==
    IF k > Len(m.free_intervals) THEN NoTx
    ELSE LET free_seg == m.free_intervals[k]
             tx_start == Max2(free_seg.start, at_time)
             tx_end == get_tx_end(m.rate_intervals, tx_start, bundle.size, free_seg.end)
             delay == get_delay(tx_end.v, m.delay_intervals)
         IN IF free_seg.end < at_time THEN SegDryRunFrom(m, at_time, bundle, k + 1)
            ELSE IF ~tx_end.some THEN SegDryRunFrom(m, at_time, bundle, k + 1)
            ELSE ContactManagerTxData(tx_start, tx_end.v, delay, free_seg.end,
                                      tx_end.v + delay)

SegDryRunTx(m, info, at_time, bundle) == SegDryRunFrom(m, at_time, bundle, 1)

RECURSIVE SegScanFrom(_, _, _, _, _, _)
\* the search loop of schedule_tx: the values of (tx_start, index, tx_end) it
\* leaves; `index` is only advanced when a visited interval cannot carry the
\* bundle, not when an interval is skipped by `continue`
SegScanFrom(m, at_time, bundle, k, tx_start, index) ==
    IF k > Len(m.free_intervals)
    THEN [tx_start |-> tx_start, index |-> index, tx_end |-> 0]
    ELSE LET free_seg == m.free_intervals[k]
             start == Max2(free_seg.start, at_time)
             tx_end_res == get_tx_end(m.rate_intervals, start, bundle.size, free_seg.end)
         IN IF free_seg.end < at_time
            THEN SegScanFrom(m, at_time, bundle, k + 1, tx_start, index)
            ELSE IF tx_end_res.some
                 THEN [tx_start |-> start, index |-> index, tx_end |-> tx_end_res.v]
                 ELSE SegScanFrom(m, at_time, bundle, k + 1, start, index + 1)

\* index out of range panics; otherwise Some is returned unconditionally
SegScheduleTx(m, info, at_time, bundle) ==
    LET scan == SegScanFrom(m, at_time, bundle, 1, 0, 0)
        index == scan.index
        tx_start == scan.tx_start
        tx_end == scan.tx_end
    IN IF index >= Len(m.free_intervals)
       THEN [panic |-> TRUE, res |-> NoTx, mgr |-> m]
       ELSE LET interval == m.free_intervals[index + 1]
                expiration == interval.end
                delay == get_delay(tx_end, m.delay_intervals)
                cut == [m.free_intervals EXCEPT ![index + 1].end = tx_start]
                free == IF interval.start # tx_start
                        THEN InsertAt(cut, index + 1, Segment(tx_end, expiration, 0))
                        ELSE [m.free_intervals EXCEPT ![index + 1].start = tx_end]
            IN [panic |-> FALSE,
                res |-> ContactManagerTxData(tx_start, tx_end, delay, expiration,
                                             tx_end + delay),
                mgr |-> [m EXCEPT !.free_intervals = free]]

\* ----------------------------------------------------- PSegmentationManager
PSegNew(rate_intervals, delay_intervals) ==
    [kind |-> "PSeg", booking |-> <<>>, rate_intervals |-> rate_intervals,
     delay_intervals |-> delay_intervals]

RECURSIVE PSegDryRunFrom(_, _, _, _, _, _, _)
PSegDryRunFrom(m, info, at_time, bundle, k, tx_start, tx_end_opt) ==
    IF k > Len(m.booking) THEN NoTx
    ELSE LET seg == m.booking[k]
             start == Max2(seg.start, at_time)
             delay == get_delay(tx_end_opt.v, m.delay_intervals)
         IN IF seg.end <= at_time
            THEN PSegDryRunFrom(m, info, at_time, bundle, k + 1, tx_start, tx_end_opt)
            ELSE IF bundle.priority <= seg.val
            THEN PSegDryRunFrom(m, info, at_time, bundle, k + 1, tx_start, NoDate)
            ELSE IF tx_end_opt.some
            THEN IF tx_end_opt.v < seg.end
                 THEN ContactManagerTxData(tx_start, tx_end_opt.v, delay, seg.end,
                                           tx_end_opt.v + delay)
                 ELSE PSegDryRunFrom(m, info, at_time, bundle, k + 1, tx_start,
                                     tx_end_opt)
            ELSE PSegDryRunFrom(m, info, at_time, bundle, k + 1, start,
                                get_tx_end(m.rate_intervals, start, bundle.size,
                                           info.end))

PSegDryRunTx(m, info, at_time, bundle) ==
    PSegDryRunFrom(m, info, at_time, bundle, 1, at_time, NoDate)

RECURSIVE PSegBook(_, _, _, _, _)
\* the while loop of schedule_tx, entered with index i (from 0)
PSegBook(booking, tx_start, tx_end, priority, i) ==
    IF i >= Len(booking) THEN booking
    ELSE LET seg == booking[i + 1]
             old_prio == seg.val
             cut_before == seg.start < tx_start
             b1 == IF cut_before
                   THEN [InsertAt(booking, i, Segment(seg.start, tx_start, old_prio))
                            EXCEPT ![i + 2].start = tx_start]
                   ELSE booking
             i1 == IF cut_before THEN i + 1 ELSE i
             b2 == IF b1[i1 + 1].end > tx_end
                   THEN [InsertAt(b1, i1 + 1,
                                  Segment(tx_end, b1[i1 + 1].end, old_prio))
                            EXCEPT ![i1 + 1].end = tx_end]
                   ELSE b1
             b3 == [b2 EXCEPT ![i1 + 1].val = priority]
         IN IF seg.end <= tx_start
            THEN PSegBook(booking, tx_start, tx_end, priority, i + 1)
            ELSE IF seg.start >= tx_end THEN booking
            ELSE PSegBook(b3, tx_start, tx_end, priority, i1 + 1)

PSegScheduleTx(m, info, at_time, bundle) ==
    LET out == PSegDryRunTx(m, info, at_time, bundle)
    IN IF ~out.ok THEN [panic |-> FALSE, res |-> NoTx, mgr |-> m]
       ELSE [panic |-> FALSE, res |-> out,
             mgr |-> [m EXCEPT !.booking =
                         PSegBook(m.booking, out.tx_start, out.tx_end,
                                  bundle.priority, 0)]]

\* ------------------------------------------------- trait ContactManager
dry_run_tx(m, info, at_time, bundle) ==
    CASE m.kind \in BasicKinds -> BasicDryRunTx(m, info, at_time, bundle)
      [] m.kind \in PriorityKinds -> PriorityDryRunTx(m, info, at_time, bundle)
      [] m.kind = "Seg" -> SegDryRunTx(m, info, at_time, bundle)
      [] m.kind = "PSeg" -> PSegDryRunTx(m, info, at_time, bundle)

\* [panic, res, mgr]: the value returned and the manager the call leaves
schedule_tx(m, info, at_time, bundle) ==
    CASE m.kind \in BasicKinds ->
            [panic |-> FALSE] @@ BasicScheduleTx(m, info, at_time, bundle)
      [] m.kind \in PriorityKinds ->
            [panic |-> FALSE] @@ PriorityScheduleTx(m, info, at_time, bundle)
      [] m.kind = "Seg" -> SegScheduleTx(m, info, at_time, bundle)
      [] m.kind = "PSeg" -> PSegScheduleTx(m, info, at_time, bundle)

enqueue(m, bundle) ==
    IF m.kind \in BasicKinds THEN BasicEnqueue(m, bundle)
    ELSE PriorityEnqueue(m, bundle)

dequeue(m, bundle) ==
    IF m.kind \in BasicKinds THEN BasicDequeue(m, bundle)
    ELSE PriorityDequeue(m, bundle)

\* ------------------------------------------------------------ Contact
ContactInfo(tx_node, rx_node, start, end) ==
    [tx_node |-> tx_node, rx_node |-> rx_node, start |-> start, end |-> end]

\* ContactManager::try_init per manager type: [ok, mgr]
try_init(m, info) ==
    CASE m.kind \in BasicKinds -> [ok |-> TRUE, mgr |-> BasicTryInit(m, info)]
      [] m.kind \in PriorityKinds -> [ok |-> TRUE, mgr |-> PriorityTryInit(m, info)]
      [] m.kind = "Seg" ->
            LET r == SegTryInit(m.rate_intervals, m.delay_intervals,
                                m.free_intervals, 0, info)
            IN [ok |-> r.ok, mgr |-> [m EXCEPT !.free_intervals = r.other]]
      [] m.kind = "PSeg" ->
            LET r == SegTryInit(m.rate_intervals, m.delay_intervals,
                                m.booking, -1, info)
            IN [ok |-> r.ok, mgr |-> [m EXCEPT !.booking = r.other]]

\* Contact::try_new: [ok, info, manager]
ContactTryNew(info, manager) ==
    LET r == try_init(manager, info)
    IN [ok |-> info.start < info.end /\ r.ok, info |-> info, manager |-> r.mgr]

Bundle(source, destinations, priority, size, expiration) ==
    [source |-> source, destinations |-> destinations, priority |-> priority,
     size |-> size, expiration |-> expiration]

\* ------------------------------------------------------- RouteStage
\* Date::MAX and HopCount::MAX are both written DateMax
NoNode == -1
NoContact == 0

\* a stage of the tree is identified by its to_node: by_destination holds
\* one shared stage per node, and via_parent names the parent's shared stage
RouteStage(to_node, at_time, hop_count, expiration, via_contact, via_parent) ==
    [to_node |-> to_node, at_time |-> at_time, hop_count |-> hop_count,
     expiration |-> expiration, via_contact |-> via_contact,
     via_parent |-> via_parent,
     next_for_destination |-> [d \in 0 .. MaxNode |-> NoNode]]

\* RouteStage::new(current_time, source, None)
RouteStageNew(at_time, to_node) ==
    RouteStage(to_node, at_time, 0, DateMax, NoContact, NoNode)

\* RouteStage::new_work_area(node): the sentinel with infinite distance
RouteStageNewWorkArea(to_node) ==
    RouteStage(to_node, DateMax, DateMax, 0, NoContact, NoNode)

\* RouteStage::update_with(other)
update_with(known, other) ==
    [known EXCEPT !.at_time = other.at_time, !.hop_count = other.hop_count,
                  !.expiration = other.expiration,
                  !.via_contact = other.via_contact,
                  !.via_parent = other.via_parent]

\* ---------------------------------------------------------- Distance
\* Ordering::Less is -1, Equal 0, Greater 1
\* a comparison that looks at hop_count before at_time
SABRCmpHopFirst(first, second) ==
    IF first.hop_count > second.hop_count THEN 1
    ELSE IF first.hop_count < second.hop_count THEN -1
    ELSE IF first.at_time > second.at_time THEN 1
    ELSE IF first.at_time < second.at_time THEN -1
    ELSE IF first.expiration < second.expiration THEN 1
    ELSE IF first.expiration > second.expiration THEN -1
    ELSE 0

\* a comparison that prefers the earlier expiration
HopCmpEarlyExpiration(first, second) ==
    IF first.hop_count > second.hop_count THEN 1
    ELSE IF first.hop_count < second.hop_count THEN -1
    ELSE IF first.at_time > second.at_time THEN 1
    ELSE IF first.at_time < second.at_time THEN -1
    ELSE IF first.expiration > second.expiration THEN 1
    ELSE IF first.expiration < second.expiration THEN -1
    ELSE 0

\* SABR::cmp
SABRCmp(first, second) ==
    IF first.at_time > second.at_time THEN 1
    ELSE IF first.at_time < second.at_time THEN -1
    ELSE IF first.hop_count > second.hop_count THEN 1
    ELSE IF first.hop_count < second.hop_count THEN -1
    ELSE IF first.expiration < second.expiration THEN 1
    ELSE IF first.expiration > second.expiration THEN -1
    ELSE 0

HopCmp(first, second) ==
    IF first.hop_count > second.hop_count THEN 1
    ELSE IF first.hop_count < second.hop_count THEN -1
    ELSE IF first.at_time > second.at_time THEN 1
    ELSE IF first.at_time < second.at_time THEN -1
    ELSE IF first.expiration < second.expiration THEN 1
    ELSE IF first.expiration > second.expiration THEN -1
    ELSE 0

\* SABR::eq and Hop::eq
SABREq(first, second) ==
    /\ first.at_time = second.at_time
    /\ first.hop_count = second.hop_count
    /\ first.expiration = second.expiration

HopEq(first, second) ==
    /\ first.at_time = second.at_time
    /\ first.hop_count = second.hop_count
    /\ first.expiration = second.expiration

DistanceEq(distance, first, second) ==
    IF distance = "SABR" THEN SABREq(first, second) ELSE HopEq(first, second)

DistanceCmp(distance, first, second) ==
    IF distance = "SABR" THEN SABRCmp(first, second) ELSE HopCmp(first, second)

\* ------------------------------------- BinaryHeap<Reverse<Rc<RouteStage>>>
\* The heap holds references: data is a sequence of node ids and an entry
\* compares by the value its stage has in tree when the comparison is made.
\* Reverse(a) <= Reverse(b) iff b <= a.
RevLe(distance, tree, a, b) == DistanceCmp(distance, tree[b], tree[a]) <= 0

Swap(data, i, j) == [data EXCEPT ![i] = data[j], ![j] = data[i]]

RECURSIVE SiftUp(_, _, _, _, _)
\* sift_up(start, pos) on 0-based positions; the hole's element is data[pos]
SiftUp(distance, tree, data, start, pos) ==
    IF pos > start
    THEN LET parent == (pos - 1) \div 2
         IN IF RevLe(distance, tree, data[pos + 1], data[parent + 1])
            THEN data
            ELSE SiftUp(distance, tree, Swap(data, pos + 1, parent + 1),
                        start, parent)
    ELSE data

HeapPush(distance, tree, data, item) ==
    SiftUp(distance, tree, Append(data, item), 0, Len(data))

RECURSIVE SiftDownToBottom(_, _, _, _, _)
\* the descent of sift_down_to_bottom: [data, pos] once the hole is a leaf
SiftDownToBottom(distance, tree, data, pos, end) ==
    LET child == 2 * pos + 1
    IN IF child <= Max2(end - 2, 0) /\ child + 1 < end
       THEN LET c == IF RevLe(distance, tree, data[child + 1], data[child + 2])
                     THEN child + 1 ELSE child
            IN SiftDownToBottom(distance, tree, Swap(data, pos + 1, c + 1),
                                c, end)
       ELSE IF child = end - 1
            THEN [data |-> Swap(data, pos + 1, child + 1), pos |-> child]
            ELSE [data |-> data, pos |-> pos]

\* BinaryHeap::pop: [item, data]; called on a non-empty heap
HeapPop(distance, tree, data) ==
    LET last_item == data[Len(data)]
        rest == SubSeq(data, 1, Len(data) - 1)
    IN IF rest = <<>> THEN [item |-> last_item, data |-> rest]
       ELSE LET swapped == [rest EXCEPT ![1] = last_item]
                down == SiftDownToBottom(distance, tree, swapped, 0, Len(rest))
            IN [item |-> rest[1],
                data |-> SiftUp(distance, tree, down.data, 0, down.pos)]

\* --------------------------------------------------------- Multigraph
\* contacts is the plan, a sequence of [info, manager]; a contact is named
\* by its index in it.  Nodes are 0 .. MaxNode.
Nodes == 0 .. MaxNode

RECURSIVE InsertByEnd(_, _, _)
\* insert contact c in a bucket kept sorted by info.end ascending
InsertByEnd(contacts, bucket, c) ==
    IF bucket = <<>> THEN <<c>>
    ELSE IF contacts[c].info.end < contacts[Head(bucket)].info.end
         THEN <<c>> \o bucket
         ELSE <<Head(bucket)>> \o InsertByEnd(contacts, Tail(bucket), c)

RECURSIVE BucketFrom(_, _, _, _)
BucketFrom(contacts, tx, rx, c) ==
    IF c > Len(contacts) THEN <<>>
    ELSE LET rest == BucketFrom(contacts, tx, rx, c + 1)
         IN IF contacts[c].info.tx_node = tx /\ contacts[c].info.rx_node = rx
            THEN InsertByEnd(contacts, rest, c)
            ELSE rest

\* senders[tx].receivers[rx].contacts_to_receiver
contacts_to_receiver(contacts, tx, rx) == BucketFrom(contacts, tx, rx, 1)

\* the receivers of a sender, in node order
Receivers(contacts, tx) ==
    {rx \in Nodes : rx # tx /\ contacts_to_receiver(contacts, tx, rx) # <<>>}

RECURSIVE PruneFrom(_, _, _, _)
PruneFrom(contacts, bucket, idx, current_time) ==
    IF idx < Len(bucket) /\ contacts[bucket[idx + 1]].info.end <= current_time
    THEN PruneFrom(contacts, bucket, idx + 1, current_time)
    ELSE idx

\* [cursor, idx]: the advanced cursor, and the first index left or NoNode
lazy_prune_and_get_first_idx(contacts, bucket, cursor, current_time) ==
    LET c == PruneFrom(contacts, bucket, cursor, current_time)
    IN [cursor |-> c, idx |-> IF c < Len(bucket) THEN c ELSE NoNode]

NoCursor == [pair \in Nodes \X Nodes |-> 0]

\* -------------------------------------------------------- pathfinding
NoStage == [ok |-> FALSE, stage |-> RouteStageNewWorkArea(0)]

RECURSIVE try_make_hop(_, _, _, _, _, _)
\* the first contact at or after first_contact_index whose dry run succeeds
try_make_hop(first_contact_index, from_route, bundle, contacts, bucket, rx) ==
    IF first_contact_index >= Len(bucket) THEN NoStage
    ELSE LET c == bucket[first_contact_index + 1]
             Hop(res) ==
                 IF res.ok
                 THEN [ok |-> TRUE,
                       stage |-> RouteStage(rx, res.arrival,
                                            from_route.hop_count + 1,
                                            Min2(from_route.expiration,
                                                 contacts[c].info.end),
                                            c, from_route.to_node)]
                 ELSE try_make_hop(first_contact_index + 1, from_route,
                                   bundle, contacts, bucket, rx)
         IN Hop(dry_run_tx(contacts[c].manager, contacts[c].info,
                           from_route.at_time, bundle))

\* one receiver of the popped sender: [tree, heap, cursor]
RelaxReceiver(g, st, from, rx) ==
    LET bucket == contacts_to_receiver(g.contacts, from, rx)
        Update(cursor1, hop) ==
            IF hop.ok /\ DistanceCmp(g.distance, hop.stage, st.tree[rx]) < 0
            THEN LET tree1 == [st.tree EXCEPT
                                   ![rx] = update_with(st.tree[rx], hop.stage)]
                 IN [tree |-> tree1,
                     heap |-> HeapPush(g.distance, tree1, st.heap, rx),
                     cursor |-> cursor1]
            ELSE [st EXCEPT !.cursor = cursor1]
        Relax(pruned) ==
            Update([st.cursor EXCEPT ![<<from, rx>>] = pruned.cursor],
                   IF pruned.idx = NoNode THEN NoStage
                   ELSE try_make_hop(pruned.idx, st.tree[from], g.bundle,
                                     g.contacts, bucket, rx))
    IN IF g.with_exclusions /\ rx \in g.excluded THEN st
       ELSE Relax(lazy_prune_and_get_first_idx(g.contacts, bucket,
                                               st.cursor[<<from, rx>>],
                                               g.current_time))

RECURSIVE RelaxReceivers(_, _, _, _)
\* for receiver in &mut sender.receivers, from node rx upwards
RelaxReceivers(g, st, from, rx) ==
    IF rx > MaxNode THEN st
    ELSE IF rx \in Receivers(g.contacts, from)
         THEN RelaxReceivers(g, RelaxReceiver(g, st, from, rx), from, rx + 1)
         ELSE RelaxReceivers(g, st, from, rx + 1)

RECURSIVE PopLoop(_, _)
\* while let Some(Reverse(from_route)) = priority_queue.pop()
PopLoop(g, st) ==
    IF st.heap = <<>> THEN st
    ELSE LET Visit(popped) ==
                 IF ~g.is_tree_output
                    /\ g.bundle.destinations[1] = popped.item
                 THEN [st EXCEPT !.heap = popped.data]
                 ELSE PopLoop(g, RelaxReceivers(g,
                                     [st EXCEPT !.heap = popped.data],
                                     popped.item, 0))
         IN Visit(HeapPop(g.distance, st.tree, st.heap))

\* define_node_graph!::get_next: [tree, cursor] with tree = by_destination
get_next(contacts, cursor, distance, is_tree_output, with_exclusions, current_time, source, bundle, excluded) ==
    LET g == [contacts |-> contacts, distance |-> distance,
              is_tree_output |-> is_tree_output,
              with_exclusions |-> with_exclusions,
              current_time |-> current_time, bundle |-> bundle,
              excluded |-> {excluded[i] : i \in DOMAIN excluded}]
        tree0 == [n \in Nodes |-> IF n = source
                                  THEN RouteStageNew(current_time, source)
                                  ELSE RouteStageNewWorkArea(n)]
        Output(st) == [tree |-> st.tree, cursor |-> st.cursor]
    IN Output(PopLoop(g, [tree |-> tree0,
                          heap |-> HeapPush(distance, tree0, <<>>, source),
                          cursor |-> cursor]))

\* ------------------------------------------- RouteStage along a route
RECURSIVE InitRouteFrom(_, _, _, _)
\* RouteStage::init_route: walk the via pointers back from the destination
\* stage, setting parent.next_for_destination[dest] = child on each edge
InitRouteFrom(tree, dest, cur, fuel) ==
    IF fuel = 0 \/ tree[cur].via_parent = NoNode THEN tree
    ELSE LET parent == tree[cur].via_parent
         IN InitRouteFrom([tree EXCEPT
                               ![parent].next_for_destination[dest] = cur],
                          dest, parent, fuel - 1)

init_route(tree, dest) == InitRouteFrom(tree, dest, dest, MaxNode + 1)

\* RouteStage::dry_run(at_time, bundle, with_exclusions): [ok, stage]
StageDryRun(contacts, stage, at_time, bundle, with_exclusions) ==
    IF stage.via_contact = NoContact THEN [ok |-> FALSE, stage |-> stage]
    ELSE LET c == contacts[stage.via_contact]
             Arrive(res) ==
                 IF res.ok
                 THEN [ok |-> TRUE,
                       stage |-> [stage EXCEPT !.at_time = res.arrival]]
                 ELSE [ok |-> FALSE, stage |-> stage]
         IN Arrive(dry_run_tx(c.manager, c.info, at_time, bundle))

\* RouteStage::schedule(at_time, bundle): [ok, stage, contacts]
StageSchedule(contacts, stage, at_time, bundle) ==
    IF stage.via_contact = NoContact
    THEN [ok |-> FALSE, stage |-> stage, contacts |-> contacts]
    ELSE LET c == contacts[stage.via_contact]
             Arrive(r) ==
                 IF ~r.panic /\ r.res.ok
                 THEN [ok |-> TRUE,
                       stage |-> [stage EXCEPT !.at_time = r.res.arrival],
                       contacts |-> [contacts EXCEPT
                                         ![stage.via_contact].manager = r.mgr]]
                 ELSE [ok |-> FALSE, stage |-> stage,
                       contacts |-> [contacts EXCEPT
                                         ![stage.via_contact].manager = r.mgr]]
         IN Arrive(schedule_tx(c.manager, c.info, at_time, bundle))

RECURSIVE DryRunWalk(_, _, _, _, _, _, _)
\* while let Some(curr_route) = curr_opt, in create_dry_run_unicast_path_variant
DryRunWalk(contacts, tree, bundle, dest, at_time, cur, fuel) ==
    IF cur = NoNode \/ fuel = 0 THEN [ok |-> FALSE, tree |-> tree]
    ELSE LET Step(r) ==
                 IF ~r.ok THEN [ok |-> FALSE, tree |-> tree]
                 ELSE IF r.stage.to_node = dest
                 THEN [ok |-> TRUE, tree |-> [tree EXCEPT ![cur] = r.stage]]
                 ELSE DryRunWalk(contacts, [tree EXCEPT ![cur] = r.stage],
                                 bundle, dest, r.stage.at_time,
                                 r.stage.next_for_destination[dest], fuel - 1)
         IN Step(StageDryRun(contacts, tree[cur], at_time, bundle, FALSE))

\* dry_run_unicast_path ($apply_exclusions = false, $try_init = true)
dry_run_unicast_path(contacts, tree, bundle, at_time, source) ==
    LET dest == bundle.destinations[1]
        tree1 == init_route(tree, dest)
    IN DryRunWalk(contacts, tree1, bundle, dest, at_time,
                  tree1[source].next_for_destination[dest], MaxNode + 1)

\* dry_run_unicast_path_with_exclusions ($apply_exclusions = true,
\* $try_init = false): the macro never reads $apply_exclusions
dry_run_unicast_path_with_exclusions(contacts, tree, bundle, at_time, source) ==
    LET dest == bundle.destinations[1]
    IN DryRunWalk(contacts, tree, bundle, dest, at_time,
                  tree[source].next_for_destination[dest], MaxNode + 1)

\* dry_run_unicast_tree: by_destination[dest] is always Some
dry_run_unicast_tree(contacts, tree, bundle, at_time, source) ==
    dry_run_unicast_path(contacts, tree, bundle, at_time, source)

RECURSIVE UpdateWalk(_, _, _, _, _, _, _, _)
\* the loop of update_unicast: [panic, contacts, tree, path]
UpdateWalk(contacts, tree, bundle, dest, at_time, cur, path, fuel) ==
    IF cur = NoNode \/ fuel = 0
    THEN [panic |-> TRUE, contacts |-> contacts, tree |-> tree, path |-> path]
    ELSE LET path1 == Append(path, cur)
             Step(r) ==
                 IF ~r.ok
                 THEN [panic |-> TRUE, contacts |-> r.contacts, tree |-> tree,
                       path |-> path]
                 ELSE IF r.stage.to_node = dest
                 THEN [panic |-> FALSE, contacts |-> r.contacts,
                       tree |-> [tree EXCEPT ![cur] = r.stage],
                       path |-> path1]
                 ELSE UpdateWalk(r.contacts, [tree EXCEPT ![cur] = r.stage],
                                 bundle, dest, r.stage.at_time,
                                 r.stage.next_for_destination[dest], path1,
                                 fuel - 1)
         IN Step(StageSchedule(contacts, tree[cur], at_time, bundle))

update_unicast(contacts, tree, bundle, dest, at_time, source) ==
    UpdateWalk(contacts, tree, bundle, dest, at_time,
               tree[source].next_for_destination[dest], <<>>, MaxNode + 1)

\* schedule_unicast(bundle, curr_time, tree, init_tree)
schedule_unicast(contacts, tree, bundle, curr_time, source, init_tree) ==
    LET dest == bundle.destinations[1]
        tree1 == IF init_tree THEN init_route(tree, dest) ELSE tree
    IN update_unicast(contacts, tree1, bundle, dest, curr_time, source)

schedule_unicast_path(contacts, tree, bundle, curr_time, source) ==
    update_unicast(contacts, tree, bundle, bundle.destinations[1], curr_time,
                   source)

\* ------------------------------------------------------ route storage
\* Bundle::shadows(other, check_size, check_priority)
shadows(self, other, check_size, check_priority) ==
    \/ check_size /\ self.size < other.size
    \/ check_priority /\ self.priority < other.priority

\* an entry of a storage: the PathFindingOutput (TreeCache) or the Route
\* (RoutingTable), with the shared stages it points to
StorageEntry(bundle, source, excluded, tree) ==
    [bundle |-> bundle, source |-> source, excluded |-> excluded,
     tree |-> tree]

RECURSIVE TreeCacheSelectFrom(_, _, _, _, _, _)
\* TreeCache::select for one destination: [hit, trees]; the dry run of an
\* entry writes the at_time of the stages it walks
TreeCacheSelectFrom(cache, contacts, bundle, curr_time, excluded, i) ==
    IF i > Len(cache.trees) THEN [hit |-> 0, trees |-> cache.trees]
    ELSE LET e == cache.trees[i]
         IN IF shadows(e.bundle, bundle, cache.check_size,
                       cache.check_priority) \/ e.excluded # excluded
            THEN TreeCacheSelectFrom(cache, contacts, bundle, curr_time,
                                     excluded, i + 1)
            ELSE LET Try(r) ==
                         IF r.ok
                         THEN [hit |-> i,
                               trees |-> [cache.trees EXCEPT
                                              ![i].tree = r.tree]]
                         ELSE TreeCacheSelectFrom(
                                  [cache EXCEPT !.trees[i].tree = r.tree],
                                  contacts, bundle, curr_time, excluded, i + 1)
                 IN Try(dry_run_unicast_tree(contacts, e.tree, bundle,
                                             curr_time, e.source))

TreeCacheSelect(cache, contacts, bundle, curr_time, excluded) ==
    TreeCacheSelectFrom(cache, contacts, bundle, curr_time, excluded, 1)

\* a store that appends every tree
TreeCacheStoreAppend(cache, new_tree) ==
    LET trees1 == Append(cache.trees, new_tree)
    IN IF Len(trees1) > cache.max_entries THEN Tail(trees1) ELSE trees1

\* TreeCache::store: the trees after the call
TreeCacheStore(cache, new_tree) ==
    LET same == {i \in DOMAIN cache.trees :
                    cache.trees[i].excluded = new_tree.excluded}
        replace_index == IF same = {} THEN 0
                         ELSE CHOOSE i \in same : \A j \in same : i <= j
        trees1 == IF replace_index # 0
                  THEN [cache.trees EXCEPT ![replace_index] = new_tree]
                  ELSE Append(cache.trees, new_tree)
    IN IF Len(trees1) > cache.max_entries THEN Tail(trees1) ELSE trees1

RECURSIVE TableSelectFrom(_, _, _, _, _, _)
\* RoutingTable::select: the entry kept for the destination, if the request
\* excludes the same nodes and the replay of its dry run succeeds
TableSelectFrom(cache, contacts, bundle, curr_time, excluded, i) ==
    IF i > Len(cache.trees) THEN [hit |-> 0, trees |-> cache.trees]
    ELSE LET e == cache.trees[i]
         IN IF e.bundle.destinations # bundle.destinations
               \/ e.excluded # excluded
            THEN TableSelectFrom(cache, contacts, bundle, curr_time,
                                 excluded, i + 1)
            ELSE LET Try(r) ==
                         IF r.ok
                         THEN [hit |-> i,
                               trees |-> [cache.trees EXCEPT
                                              ![i].tree = r.tree]]
                         ELSE TableSelectFrom(
                                  [cache EXCEPT !.trees[i].tree = r.tree],
                                  contacts, bundle, curr_time, excluded, i + 1)
                 IN Try(dry_run_unicast_path(contacts, e.tree, bundle,
                                             curr_time, e.source))

TableSelect(cache, contacts, bundle, curr_time, excluded) ==
    TableSelectFrom(cache, contacts, bundle, curr_time, excluded, 1)

\* RoutingTable::store: one route per destination
TableStore(cache, route) ==
    LET same == {i \in DOMAIN cache.trees :
                    cache.trees[i].bundle.destinations =
                        route.bundle.destinations}
    IN IF same = {} THEN Append(cache.trees, route)
       ELSE [i \in DOMAIN cache.trees |->
                IF i \in same THEN route ELSE cache.trees[i]]

\* -------------------------------------------------------------- Guard
NoLimit == -1

GuardPriority(guard, bundle) ==
    IF guard.with_priorities THEN bundle.priority ELSE 0

\* a guard that aborts the bundles at least as large as the limit
MustAbortAtLeast(guard, bundle) ==
    LET priority == GuardPriority(guard, bundle)
        unreachable ==
            {i \in DOMAIN bundle.destinations :
                LET limit == guard.known_limits[<<bundle.destinations[i],
                                                   priority>>]
                IN limit # NoLimit /\ bundle.size >= limit}
    IN Cardinality(unreachable) = Len(bundle.destinations)

\* Guard::must_abort
must_abort(guard, bundle) ==
    LET priority == GuardPriority(guard, bundle)
        unreachable ==
            {i \in DOMAIN bundle.destinations :
                LET limit == guard.known_limits[<<bundle.destinations[i],
                                                   priority>>]
                IN limit # NoLimit /\ bundle.size < limit}
    IN Cardinality(unreachable) = Len(bundle.destinations)

\* a guard that keeps the largest size it is given
AddLimitLargest(guard, bundle, dest) ==
    LET priority == GuardPriority(guard, bundle)
        val == guard.known_limits[<<dest, priority>>]
    IN IF val # NoLimit /\ val >= bundle.size THEN guard
       ELSE [guard EXCEPT !.known_limits[<<dest, priority>>] = bundle.size]

add_limit(guard, bundle, dest) ==
    LET priority == GuardPriority(guard, bundle)
        val == guard.known_limits[<<dest, priority>>]
    IN IF val # NoLimit /\ val <= bundle.size THEN guard
       ELSE [guard EXCEPT !.known_limits[<<dest, priority>>] = bundle.size]

\* ------------------------------------------------------------ routers
\* an output that lists the first stage of the path
RoutingOutputFirstStage(tree, path) ==
    <<[contact |-> tree[path[1]].via_contact, stages |-> <<tree[path[1]]>>]>>

\* the RoutingOutput update_unicast returns, path being the nodes of the
\* stages it scheduled: first_hops has one entry, the via contact of the
\* first stage with vec![curr_route] of the stage that reached dest
RoutingOutput(tree, path) ==
    <<[contact |-> tree[path[1]].via_contact,
       stages |-> <<tree[path[Len(path)]]>>]>>

\* what a call of route leaves: the Option it returns (some, with the
\* stages of the committed path), whether it panicked, whether the route
\* came from a fresh search (then search is the tree get_next returned),
\* and the contacts, cursors, storage and guard after the call
RouteResult(some, panic, fresh, contacts, cursor, trees, guard, tree, path, search) ==
    [some |-> some, panic |-> panic, fresh |-> fresh, contacts |-> contacts,
     cursor |-> cursor, trees |-> trees, guard |-> guard,
     first_hops |-> IF some THEN RoutingOutput(tree, path) ELSE <<>>,
     path |-> [i \in DOMAIN path |-> tree[path[i]]],
     search |-> [n \in Nodes |-> search[n]]]

NoSearch == [n \in Nodes |-> RouteStageNewWorkArea(n)]

\* a route_unicast that tests the expiration after the commit
SpsnRouteUnicastLateExpiry(st, distance, source, bundle, curr_time, excluded) ==
    LET dest == bundle.destinations[1]
        Replayed(sel, replay) ==
            RouteResult(~replay.panic, replay.panic, FALSE, replay.contacts,
                        st.cursor,
                        [sel.trees EXCEPT ![sel.hit].tree = replay.tree],
                        st.guard, replay.tree, replay.path, NoSearch)
        Scheduled(sel, new_tree, fresh) ==
            RouteResult(~fresh.panic, fresh.panic, TRUE, fresh.contacts,
                        new_tree.cursor,
                        TreeCacheStore([st.cache EXCEPT !.trees = sel.trees],
                            StorageEntry(bundle, source, excluded,
                                         fresh.tree)),
                        st.guard, fresh.tree, fresh.path, new_tree.tree)
        Searched(sel, new_tree) ==
            IF dest \notin DOMAIN new_tree.tree
            THEN RouteResult(FALSE, FALSE, TRUE, st.contacts, new_tree.cursor,
                        TreeCacheStore([st.cache EXCEPT !.trees = sel.trees],
                            StorageEntry(bundle, source, excluded,
                                         new_tree.tree)),
                        add_limit(st.guard, bundle, dest), NoSearch, <<>>,
                        new_tree.tree)
            ELSE IF new_tree.tree[dest].at_time > bundle.expiration
            THEN RouteResult(FALSE, FALSE, TRUE,
                        schedule_unicast(st.contacts, new_tree.tree, bundle,
                                         curr_time, source, TRUE).contacts,
                        new_tree.cursor,
                        TreeCacheStore([st.cache EXCEPT !.trees = sel.trees],
                            StorageEntry(bundle, source, excluded,
                                         new_tree.tree)),
                        st.guard, NoSearch, <<>>, new_tree.tree)
            ELSE Scheduled(sel, new_tree,
                           schedule_unicast(st.contacts, new_tree.tree, bundle,
                                            curr_time, source, TRUE))
        Selected(sel) ==
            IF sel.hit # 0
            THEN Replayed(sel,
                          schedule_unicast(st.contacts,
                                           sel.trees[sel.hit].tree, bundle,
                                           curr_time,
                                           sel.trees[sel.hit].source, FALSE))
            ELSE Searched(sel,
                          get_next(st.contacts, st.cursor, distance, TRUE,
                                   TRUE, curr_time, source, bundle, excluded))
    IN IF must_abort(st.guard, bundle)
       THEN RouteResult(FALSE, FALSE, FALSE, st.contacts, st.cursor,
                        st.cache.trees, st.guard, NoSearch, <<>>, NoSearch)
       ELSE Selected(TreeCacheSelect(st.cache, st.contacts, bundle, curr_time,
                                     excluded))

\* Spsn::route_unicast, with NodeGraphTree and a TreeCache.  by_destination
\* of the tree get_next returns is Some for every node: the None arm of the
\* match is the case of a destination that is no index of the tree
SpsnRouteUnicast(st, distance, source, bundle, curr_time, excluded) ==
    LET dest == bundle.destinations[1]
        Replayed(sel, replay) ==
            RouteResult(~replay.panic, replay.panic, FALSE, replay.contacts,
                        st.cursor,
                        [sel.trees EXCEPT ![sel.hit].tree = replay.tree],
                        st.guard, replay.tree, replay.path, NoSearch)
        Scheduled(sel, new_tree, fresh) ==
            RouteResult(~fresh.panic, fresh.panic, TRUE, fresh.contacts,
                        new_tree.cursor,
                        TreeCacheStore([st.cache EXCEPT !.trees = sel.trees],
                            StorageEntry(bundle, source, excluded,
                                         fresh.tree)),
                        st.guard, fresh.tree, fresh.path, new_tree.tree)
        Searched(sel, new_tree) ==
            IF dest \notin DOMAIN new_tree.tree
            THEN RouteResult(FALSE, FALSE, TRUE, st.contacts, new_tree.cursor,
                        TreeCacheStore([st.cache EXCEPT !.trees = sel.trees],
                            StorageEntry(bundle, source, excluded,
                                         new_tree.tree)),
                        add_limit(st.guard, bundle, dest), NoSearch, <<>>,
                        new_tree.tree)
            ELSE IF new_tree.tree[dest].at_time > bundle.expiration
            THEN RouteResult(FALSE, FALSE, TRUE, st.contacts, new_tree.cursor,
                        TreeCacheStore([st.cache EXCEPT !.trees = sel.trees],
                            StorageEntry(bundle, source, excluded,
                                         new_tree.tree)),
                        st.guard, NoSearch, <<>>, new_tree.tree)
            ELSE Scheduled(sel, new_tree,
                           schedule_unicast(st.contacts, new_tree.tree, bundle,
                                            curr_time, source, TRUE))
        Selected(sel) ==
            IF sel.hit # 0
            THEN Replayed(sel,
                          schedule_unicast(st.contacts,
                                           sel.trees[sel.hit].tree, bundle,
                                           curr_time,
                                           sel.trees[sel.hit].source, FALSE))
            ELSE Searched(sel,
                          get_next(st.contacts, st.cursor, distance, TRUE,
                                   TRUE, curr_time, source, bundle, excluded))
    IN IF must_abort(st.guard, bundle)
       THEN RouteResult(FALSE, FALSE, FALSE, st.contacts, st.cursor,
                        st.cache.trees, st.guard, NoSearch, <<>>, NoSearch)
       ELSE Selected(TreeCacheSelect(st.cache, st.contacts, bundle, curr_time,
                                     excluded))

\* Cgr::route_unicast, with NodeGraphPath and a RoutingTable
CgrRouteUnicast(st, distance, source, bundle, curr_time, excluded) ==
    LET dest == bundle.destinations[1]
        bundle_no_constraints == [bundle EXCEPT !.priority = 1, !.size = 0]
        Replayed(sel, replay) ==
            RouteResult(~replay.panic, replay.panic, FALSE, replay.contacts,
                        st.cursor,
                        [sel.trees EXCEPT ![sel.hit].tree = replay.tree],
                        st.guard, replay.tree, replay.path, NoSearch)
        Scheduled(sel, new_tree, fresh) ==
            RouteResult(~fresh.panic, fresh.panic, TRUE, fresh.contacts,
                        new_tree.cursor,
                        TableStore([st.cache EXCEPT !.trees = sel.trees],
                            StorageEntry(bundle, source, excluded,
                                         fresh.tree)),
                        st.guard, fresh.tree, fresh.path, new_tree.tree)
        Dried(sel, new_tree, dry_run) ==
            IF dry_run.ok
            THEN Scheduled(sel, new_tree,
                           schedule_unicast_path(st.contacts, dry_run.tree,
                                                 bundle, curr_time, source))
            ELSE RouteResult(FALSE, FALSE, TRUE, st.contacts, new_tree.cursor,
                        TableStore([st.cache EXCEPT !.trees = sel.trees],
                            StorageEntry(bundle, source, excluded,
                                         dry_run.tree)),
                        st.guard, NoSearch, <<>>, new_tree.tree)
        Searched(sel, new_tree) ==
            Dried(sel, new_tree,
                    dry_run_unicast_path_with_exclusions(
                        st.contacts, init_route(new_tree.tree, dest), bundle,
                        curr_time, source))
        Selected(sel) ==
            IF sel.hit # 0
            THEN Replayed(sel,
                          schedule_unicast_path(st.contacts,
                                                sel.trees[sel.hit].tree,
                                                bundle, curr_time,
                                                sel.trees[sel.hit].source))
            ELSE Searched(sel,
                          get_next(st.contacts, st.cursor, distance, FALSE,
                                   FALSE, curr_time, source,
                                   bundle_no_constraints, excluded))
    IN Selected(TableSelect(st.cache, st.contacts, bundle, curr_time,
                            excluded))

\* ===================================================================
\* Multicast: routing/mod.rs and Spsn::route_multicast
\* ===================================================================
\* Vec<NodeID> of destinations are sets of nodes here: the destinations of
\* a bundle are distinct, and the HashMap next_routes is walked in node
\* order (the subtrees behind two next stages share no stage and no contact)
DestinationSet(bundle) ==
    {bundle.destinations[i] : i \in DOMAIN bundle.destinations}

\* the keys of next_routes, and the destinations kept under one key
NextRoutes(stage, dests) ==
    {stage.next_for_destination[d] :
         d \in {x \in dests : x # stage.to_node
                              /\ stage.next_for_destination[x] # NoNode}}

DestinationsVia(stage, dests, next) ==
    {d \in dests : d # stage.to_node /\ stage.next_for_destination[d] = next}

RECURSIVE InitForDestinations(_, _)
\* init_for_destination for each destination of the set
InitForDestinations(tree, dests) ==
    IF dests = {} THEN tree
    ELSE LET dest == CHOOSE d \in dests : \A e \in dests : d <= e
         IN InitForDestinations(init_route(tree, dest), dests \ {dest})

RECURSIVE rec_dry_run_multicast(_, _, _, _, _, _, _, _)
RECURSIVE DryRunNextRoutes(_, _, _, _, _, _, _, _)
\* rec_dry_run_multicast on the stage of node cur: acc is [tree, reached]
rec_dry_run_multicast(contacts, acc, bundle, at_time, dests, cur, is_source, fuel) ==
    IF fuel = 0 THEN acc
    ELSE LET Visit(ok, stage, time) ==
                 IF ~ok THEN acc
                 ELSE DryRunNextRoutes(contacts,
                          [tree |-> [acc.tree EXCEPT ![cur] = stage],
                           reached |-> acc.reached
                                           \cup (dests \cap {stage.to_node})],
                          bundle, time, dests, cur, NextRoutes(stage, dests),
                          fuel)
             Dry(r) == Visit(r.ok, r.stage, r.stage.at_time)
         IN IF is_source THEN Visit(TRUE, acc.tree[cur], at_time)
            ELSE Dry(StageDryRun(contacts, acc.tree[cur], at_time, bundle,
                                 FALSE))

\* for (_, (next_route, destinations)) in next_routes
DryRunNextRoutes(contacts, acc, bundle, at_time, dests, cur, next_routes, fuel) ==
    IF next_routes = {} THEN acc
    ELSE LET next == CHOOSE n \in next_routes : \A m \in next_routes : n <= m
         IN DryRunNextRoutes(contacts,
                rec_dry_run_multicast(contacts, acc, bundle, at_time,
                    DestinationsVia(acc.tree[cur], dests, next), next, FALSE,
                    fuel - 1),
                bundle, at_time, dests, cur, next_routes \ {next}, fuel)

\* dry_run_multicast: reachable is what the call leaves in its argument
\* reachable_destinations (the destinations that have a stage in the tree),
\* reached is the Vec it returns
dry_run_multicast(contacts, tree, bundle, at_time, source) ==
    LET reachable == {d \in DestinationSet(bundle) : d \in DOMAIN tree}
        Out(r) == [reachable |-> reachable, reached |-> r.reached,
                   tree |-> r.tree]
    IN Out(rec_dry_run_multicast(contacts,
               [tree |-> InitForDestinations(tree, reachable),
                reached |-> {}],
               bundle, at_time, reachable, source, TRUE, MaxNode + 1))

RECURSIVE rec_update_multicast(_, _, _, _, _, _, _)
RECURSIVE UpdateNextRoutes(_, _, _, _, _, _, _)
RECURSIVE UpdateEachDestination(_, _, _, _, _, _, _)
\* a descent that visits the next stage once for each destination behind it
UpdateEachDestination(acc, bundle, at_time, dests, cur, next_routes, fuel) ==
    LET behind == UNION {DestinationsVia(acc.tree[cur], dests, next) :
                             next \in next_routes}
    IN IF behind = {} THEN acc
       ELSE LET dest == CHOOSE d \in behind : \A e \in behind : d <= e
            IN UpdateEachDestination(
                   rec_update_multicast(acc, bundle, at_time, {dest},
                       acc.tree[cur].next_for_destination[dest], FALSE,
                       fuel - 1),
                   bundle, at_time, dests \ {dest}, cur, next_routes, fuel)

\* rec_update_multicast on the stage of node cur: acc is [tree, contacts,
\* path], path the nodes whose stage had schedule called
rec_update_multicast(acc, bundle, at_time, dests, cur, is_source, fuel) ==
    IF fuel = 0 THEN acc
    ELSE LET Visit(ok, stage, time, plan, path) ==
                 IF ~ok THEN [acc EXCEPT !.contacts = plan, !.path = path]
                 ELSE UpdateNextRoutes(
                          [tree |-> [acc.tree EXCEPT ![cur] = stage],
                           contacts |-> plan, path |-> path],
                          bundle, time, dests, cur, NextRoutes(stage, dests),
                          fuel)
             Sched(r) == Visit(r.ok, r.stage, r.stage.at_time, r.contacts,
                               Append(acc.path, cur))
         IN IF is_source
            THEN Visit(TRUE, acc.tree[cur], at_time, acc.contacts, acc.path)
            ELSE Sched(StageSchedule(acc.contacts, acc.tree[cur], at_time,
                                     bundle))

UpdateNextRoutes(acc, bundle, at_time, dests, cur, next_routes, fuel) ==
    IF next_routes = {} THEN acc
    ELSE LET next == CHOOSE n \in next_routes : \A m \in next_routes : n <= m
         IN UpdateNextRoutes(
                rec_update_multicast(acc, bundle, at_time,
                    DestinationsVia(acc.tree[cur], dests, next), next, FALSE,
                    fuel - 1),
                bundle, at_time, dests, cur, next_routes \ {next}, fuel)

\* schedule_multicast: [panic, contacts, tree, path].  build_multicast_output
\* ends in todo!(), after the managers were updated
schedule_multicast(contacts, tree, bundle, curr_time, source, targets, dry_run_to_fill_targets) ==
    LET Out(upd) == [panic |-> TRUE, contacts |-> upd.contacts,
                     tree |-> upd.tree, path |-> upd.path]
        Update(tree1, targets1) ==
            Out(rec_update_multicast(
                    [tree |-> tree1, contacts |-> contacts, path |-> <<>>],
                    bundle, curr_time, targets1, source, TRUE, MaxNode + 1))
        Filled(dry) == Update(dry.tree, dry.reached)
    IN IF dry_run_to_fill_targets
       THEN Filled(dry_run_multicast(contacts, tree, bundle, curr_time,
                                     source))
       ELSE Update(tree, targets)

RECURSIVE TreeCacheSelectMulticastFrom(_, _, _, _, _, _)
\* TreeCache::select for several destinations: [hit, trees, reachable]; the
\* first tree of the exclusion list is returned with the Vec the dry run
\* left in reachable_nodes, the Vec it returns is dropped
TreeCacheSelectMulticastFrom(cache, contacts, bundle, curr_time, excluded, i) ==
    IF i > Len(cache.trees)
    THEN [hit |-> 0, trees |-> cache.trees, reachable |-> {}]
    ELSE LET e == cache.trees[i]
             Found(dry) ==
                 [hit |-> i,
                  trees |-> [cache.trees EXCEPT ![i].tree = dry.tree],
                  reachable |-> dry.reachable]
         IN IF shadows(e.bundle, bundle, cache.check_size,
                       cache.check_priority) \/ e.excluded # excluded
            THEN TreeCacheSelectMulticastFrom(cache, contacts, bundle,
                                              curr_time, excluded, i + 1)
            ELSE Found(dry_run_multicast(contacts, e.tree, bundle, curr_time,
                                         e.source))

\* Spsn::route_multicast
SpsnRouteMulticast(st, distance, source, bundle, curr_time, excluded) ==
    LET Replayed(sel, upd) ==
            RouteResult(~upd.panic, upd.panic, FALSE, upd.contacts, st.cursor,
                        [sel.trees EXCEPT ![sel.hit].tree = upd.tree],
                        st.guard, upd.tree, upd.path, NoSearch)
        Scheduled(sel, new_tree, upd) ==
            RouteResult(~upd.panic, upd.panic, TRUE, upd.contacts,
                        new_tree.cursor,
                        TreeCacheStore([st.cache EXCEPT !.trees = sel.trees],
                            StorageEntry(bundle, source, excluded, upd.tree)),
                        st.guard, upd.tree, upd.path, new_tree.tree)
        Searched(sel, new_tree) ==
            Scheduled(sel, new_tree,
                      schedule_multicast(st.contacts, new_tree.tree, bundle,
                                         curr_time, source, {}, TRUE))
        Selected(sel) ==
            IF sel.hit # 0
               /\ Len(bundle.destinations) = Cardinality(sel.reachable)
            THEN Replayed(sel,
                          schedule_multicast(st.contacts,
                                             sel.trees[sel.hit].tree, bundle,
                                             curr_time,
                                             sel.trees[sel.hit].source,
                                             sel.reachable, FALSE))
            ELSE Searched(sel,
                          get_next(st.contacts, st.cursor, distance, TRUE,
                                   TRUE, curr_time, source, bundle, excluded))
    IN Selected(TreeCacheSelectMulticastFrom(st.cache, st.contacts, bundle,
                                             curr_time, excluded, 1))

\* ===================================================================
\* The manager machine: one contact, calls of the ContactManager trait
\* ===================================================================
VARIABLES info, manager, scheduled, last, ops,
          router, contacts, cursor, storage, guard, rout, rcalls,
          operands, order, run

\* the comparison machine: three route stages and what the comparisons of a
\* distance returned on them
NoOperands == <<>>
NoOrder == [distance |-> "none", ab |-> 0, ba |-> 0, bc |-> 0, ac |-> 0,
            eq_ab |-> FALSE]

mvars == <<info, manager, scheduled, last, ops>>
rvars == <<router, contacts, cursor, storage, guard, rout, rcalls>>
\* the call of route in progress in the stepwise machine: where it is, its
\* arguments, the state of the search and the stage init_route stands on
NoRun == [phase |-> "idle"]

cvars == <<operands, order, run>>
vars == <<info, manager, scheduled, last, ops,
          router, contacts, cursor, storage, guard, rout, rcalls,
          operands, order, run>>

Kinds == BasicKinds \cup PriorityKinds \cup {"Seg", "PSeg"}
ManualKinds == {k \in BasicKinds \cup PriorityKinds : ~Rules(k).auto_update}

ContactStart == 2
ContactEnd == 12
ExpirationSoon == 8

AtTimes == {t \in 0 .. MaxTime : t % 5 = 0}
Sizes == {s \in 0 .. MaxSize : s % 4 = 2}
Priorities == 0 .. (NbPriorities - 1)
Expirations == {ExpirationSoon, DateMax}
\* no manager reads the priority where it tests the expiration: the bundles
\* that expire soon are of priority 0
Bundles ==
    {b \in {Bundle(0, <<1>>, p, s, e) :
                p \in Priorities, s \in Sizes, e \in Expirations} :
        b.expiration = DateMax \/ b.priority = 0}
\* the queue only reads a bundle's priority and size
QueueBundles == {b \in Bundles : b.expiration = DateMax}

\* a two-rate, two-delay segmentation of the contact, or a uniform one
SegRates(rate) ==
    IF rate = 1 THEN <<Segment(ContactStart, ContactEnd, 1)>>
    ELSE <<Segment(ContactStart, ContactStart + 4, 2),
           Segment(ContactStart + 4, ContactEnd, 1)>>
SegDelays(delay) ==
    <<Segment(ContactStart, ContactStart + 6, delay),
      Segment(ContactStart + 6, ContactEnd, delay + 2)>>

NewManager(kind, rate, delay, mav) ==
    CASE kind \in BasicKinds -> BasicNew(kind, rate, delay)
      [] kind \in PriorityKinds -> PriorityNew(kind, rate, delay, mav)
      [] kind = "Seg" -> SegNew(SegRates(rate), SegDelays(delay))
      [] kind = "PSeg" -> PSegNew(SegRates(rate), SegDelays(delay))

\* the last call made on the manager: its arguments, the value it returned,
\* for schedule_tx the value its dry run returned, and whether the call
\* repeats the call before it
NoCall == [op |-> "none", at_time |-> 0, bundle |-> Bundle(0, <<1>>, 0, 0, 0),
           res |-> NoTx, panic |-> FALSE, prev_res |-> NoTx, repeat |-> FALSE]

Call(op, at_time, bundle, res, panic) ==
    [op |-> op, at_time |-> at_time, bundle |-> bundle, res |-> res,
     panic |-> panic,
     prev_res |-> IF op = "schedule_tx" THEN last.res ELSE NoTx,
     repeat |-> last.op = op /\ last.at_time = at_time /\ last.bundle = bundle]

\* the configurations a contact is built with: DataRate, Duration and, for
\* the priority managers, the maximum available volume per priority
Configs ==
    {[rate |-> 1, delay |-> 1, mav |-> <<10, 10, 10>>],
     [rate |-> 2, delay |-> 1, mav |-> <<4, 6, 10>>]}

MInit ==
    \E kind \in Kinds, cfg \in Configs :
        LET c == ContactTryNew(ContactInfo(0, 1, ContactStart, ContactEnd),
                               NewManager(kind, cfg.rate, cfg.delay, cfg.mav))
        IN /\ c.ok
           /\ info = c.info
           /\ manager = c.manager
           /\ scheduled = 0
           /\ last = NoCall
           /\ ops = 0

\* a dry run that books what it finds, as schedule_tx does
DryRunBooking(at_time, bundle) ==
    /\ last' = Call("dry_run_tx", at_time, bundle,
                    dry_run_tx(manager, info, at_time, bundle), FALSE)
    /\ manager' = schedule_tx(manager, info, at_time, bundle).mgr
    /\ UNCHANGED <<info, scheduled, ops>>
    /\ UNCHANGED rvars
    /\ UNCHANGED cvars

DryRun(at_time, bundle) ==
    /\ last' = Call("dry_run_tx", at_time, bundle,
                    dry_run_tx(manager, info, at_time, bundle), FALSE)
    /\ UNCHANGED <<info, manager, scheduled, ops>>
    /\ UNCHANGED rvars
    /\ UNCHANGED cvars

\* schedule_tx is called after a dry run that returned Some, with its arguments
Schedule ==
    /\ ops < MaxOps
    /\ last.op = "dry_run_tx"
    /\ last.res.ok
    /\ LET r == schedule_tx(manager, info, last.at_time, last.bundle)
       IN /\ manager' = r.mgr
          /\ last' = Call("schedule_tx", last.at_time, last.bundle, r.res, r.panic)
          /\ scheduled' = IF r.res.ok THEN scheduled + last.bundle.size
                          ELSE scheduled
    /\ ops' = ops + 1
    /\ UNCHANGED info
    /\ UNCHANGED rvars
    /\ UNCHANGED cvars

Enqueue(bundle) ==
    /\ ops < MaxOps
    /\ manager.kind \in ManualKinds
    /\ LET r == enqueue(manager, bundle)
       IN /\ manager' = r.mgr
          /\ last' = Call("enqueue", 0, bundle, NoTx, r.panic)
    /\ ops' = ops + 1
    /\ UNCHANGED <<info, scheduled>>
    /\ UNCHANGED rvars
    /\ UNCHANGED cvars

Dequeue(bundle) ==
    /\ ops < MaxOps
    /\ manager.kind \in ManualKinds
    /\ LET r == dequeue(manager, bundle)
       IN /\ manager' = r.mgr
          /\ last' = Call("dequeue", 0, bundle, NoTx, r.panic)
    /\ ops' = ops + 1
    /\ UNCHANGED <<info, scheduled>>
    /\ UNCHANGED rvars
    /\ UNCHANGED cvars

MNext ==
    \/ \E at_time \in AtTimes, bundle \in Bundles : DryRun(at_time, bundle)
    \/ Schedule
    \/ \E bundle \in QueueBundles : Enqueue(bundle)
    \/ \E bundle \in QueueBundles : Dequeue(bundle)

\* ===================================================================
\* The router machine: a contact plan, a router and its storage, calls of
\* route
\* ===================================================================
Guard(with_priorities) ==
    [with_priorities |-> with_priorities,
     known_limits |-> [key \in Nodes \X Priorities |-> NoLimit]]

TreeCache(check_size, check_priority, max_entries) ==
    [check_size |-> check_size, check_priority |-> check_priority,
     max_entries |-> max_entries, trees |-> <<>>]

NoRoute ==
    [source |-> 0, bundle |-> Bundle(0, <<0>>, 0, 0, 0), curr_time |-> 0,
     excluded |-> <<>>, some |-> FALSE, panic |-> FALSE, fresh |-> FALSE,
     first_hops |-> <<>>, path |-> <<>>, search |-> NoSearch]

\* a contact over [start, end] with one rate and one delay
MakeContact(kind, tx_node, rx_node, start, end, rate, delay) ==
    LET volume == (end - start) * rate
        m == CASE kind \in BasicKinds -> BasicNew(kind, rate, delay)
               [] kind \in PriorityKinds ->
                    PriorityNew(kind, rate, delay, <<volume, volume, volume>>)
               [] kind = "Seg" -> SegNew(<<Segment(start, end, rate)>>,
                                         <<Segment(start, end, delay)>>)
               [] kind = "PSeg" -> PSegNew(<<Segment(start, end, rate)>>,
                                           <<Segment(start, end, delay)>>)
        c == ContactTryNew(ContactInfo(tx_node, rx_node, start, end), m)
    IN [info |-> c.info, manager |-> c.manager]

\* the linear chain 0 -> 1 -> 2 -> 3
ChainPlan(kind) ==
    <<MakeContact(kind, 0, 1, 0, 100, 1, 10),
      MakeContact(kind, 1, 2, 20, 200, 1, 10),
      MakeContact(kind, 2, 3, 40, 300, 1, 10)>>

\* two parallel contacts 0 -> 1, and the two ways 0 -> 1 -> 3, 0 -> 2 -> 3
DiamondPlan(kind) ==
    <<MakeContact(kind, 0, 1, 0, 10, 1, 5),
      MakeContact(kind, 0, 1, 0, 12, 1, 1),
      MakeContact(kind, 1, 3, 0, 12, 1, 1),
      MakeContact(kind, 0, 2, 0, 12, 1, 2),
      MakeContact(kind, 2, 3, 4, 12, 1, 1)>>

RouteKinds == {"EVL", "QD", "PQD", "Seg"}
Plans == {ChainPlan("EVL")} \cup {DiamondPlan(kind) : kind \in RouteKinds}

RouteSizes == {2, 10}
RouteExpirations == {6, 1000}
RouteTimes == {0, 4}
Exclusions == {<<>>, <<1>>, <<2>>}
RouteBundles ==
    {Bundle(0, <<3>>, 0, s, e) : s \in RouteSizes, e \in RouteExpirations}

Init ==
    /\ MInit
    /\ router = "Spsn"
    /\ contacts = <<>>
    /\ cursor = NoCursor
    /\ storage = TreeCache(FALSE, FALSE, MaxEntries)
    /\ guard = Guard(FALSE)
    /\ rout = NoRoute
    /\ rcalls = 0
    /\ operands = NoOperands
    /\ order = NoOrder
    /\ run = NoRun

Next == MNext
Spec == Init /\ [][Next]_vars

RInit ==
    /\ router \in {"Spsn", "Cgr"}
    /\ contacts \in Plans
    /\ cursor = NoCursor
    /\ storage = TreeCache(FALSE, FALSE, MaxEntries)
    /\ guard = Guard(FALSE)
    /\ rout = NoRoute
    /\ rcalls = 0
    /\ operands = NoOperands
    /\ order = NoOrder
    /\ run = NoRun
    /\ info = ContactInfo(0, 1, ContactStart, ContactEnd)
    /\ manager = BasicTryInit(BasicNew("EVL", 1, 1), info)
    /\ scheduled = 0
    /\ last = NoCall
    /\ ops = 0

\* what a router holds: the multigraph (contacts, cursors), storage, guard
RouterState(plan, cursors, cache, unicast_guard) ==
    [contacts |-> plan, cursor |-> cursors, cache |-> cache,
     guard |-> unicast_guard]

\* route of either router, with the SABR distance
RouteUnicast(kind, st, source, bundle, curr_time, excluded) ==
    IF kind = "Spsn"
    THEN SpsnRouteUnicast(st, "SABR", source, bundle, curr_time, excluded)
    ELSE CgrRouteUnicast(st, "SABR", source, bundle, curr_time, excluded)

\* the state a call of route leaves, r being what the router computed
Commit(r, source, bundle, curr_time, excluded) ==
    /\ contacts' = r.contacts
    /\ cursor' = r.cursor
    /\ storage' = [storage EXCEPT !.trees = r.trees]
    /\ guard' = r.guard
    /\ rout' = [source |-> source, bundle |-> bundle,
                curr_time |-> curr_time, excluded |-> excluded,
                some |-> r.some, panic |-> r.panic, fresh |-> r.fresh,
                first_hops |-> r.first_hops,
                path |-> r.path, search |-> r.search]

\* Router::route for a bundle with one destination; curr_time does not
\* decrease from one call to the next
Route(source, bundle, curr_time, excluded) ==
    /\ rcalls < MaxRoutes
    /\ ~rout.panic
    /\ curr_time >= rout.curr_time
    /\ Commit(RouteUnicast(router, RouterState(contacts, cursor, storage,
                                               guard),
                           source, bundle, curr_time, excluded),
              source, bundle, curr_time, excluded)
    /\ rcalls' = rcalls + 1
    /\ UNCHANGED router
    /\ UNCHANGED mvars
    /\ UNCHANGED cvars

RNext ==
    \E bundle \in RouteBundles, curr_time \in RouteTimes,
       excluded \in Exclusions : Route(0, bundle, curr_time, excluded)

SpecRoute == RInit /\ [][RNext]_vars

\* ===================================================================
\* Properties of the manager machine
\* ===================================================================
VolumeKinds == BasicKinds \cup PriorityKinds

\* C3: under EVL, ETO, QD and the priority variants, after any sequence of
\* schedule_tx calls that returned Some, the sizes of the scheduled bundles
\* sum to at most original_volume = (info.end - info.start) * rate.
C3_ScheduledWithinOriginalVolume ==
    manager.kind \in VolumeKinds =>
        /\ manager.original_volume = (info.end - info.start) * manager.rate
        /\ scheduled <= manager.original_volume

\* C4: whenever dry_run_tx or schedule_tx returns Some(data),
\* data.tx_start >= max(at_time, info.start) and data.tx_end <= info.end.
C4_TxWindowInsideContact ==
    (last.op \in {"dry_run_tx", "schedule_tx"} /\ last.res.ok) =>
        /\ last.res.tx_start >= Max2(last.at_time, info.start)
        /\ last.res.tx_end <= info.end

\* C5: dry_run_tx returns Some(data) only if data.arrival = data.tx_end +
\* data.delay and data.arrival <= bundle.expiration.
C5_ArrivalBeforeExpiration ==
    (last.op = "dry_run_tx" /\ last.res.ok) =>
        /\ last.res.arrival = last.res.tx_end + last.res.delay
        /\ last.res.arrival <= last.bundle.expiration

\* C6: a schedule_tx that immediately follows a dry_run_tx which returned
\* Some(d), with the same arguments, returns Some(d') with d' = d in all
\* five fields.
C6_ScheduleReturnsDryRunData ==
    last.op = "schedule_tx" =>
        /\ ~last.panic
        /\ last.res.ok
        /\ last.res.tx_start = last.prev_res.tx_start
        /\ last.res.tx_end = last.prev_res.tx_end
        /\ last.res.delay = last.prev_res.delay
        /\ last.res.expiration = last.prev_res.expiration
        /\ last.res.arrival = last.prev_res.arrival

C10_MavErosion ==
    [][(/\ last'.op = "schedule_tx"
        /\ ops' = ops + 1
        /\ last'.res.ok
        /\ manager.kind \in PriorityKinds) =>
          LET p == last'.bundle.priority
              s == last'.bundle.size
          IN /\ \A i \in Priorities :
                    manager'.mav[i + 1] =
                        IF i < p THEN Max2(0, manager.mav[i + 1] - s)
                        ELSE manager.mav[i + 1]
             /\ Rules(manager.kind).auto_update =>
                    manager'.queue_size[p + 1] = manager.queue_size[p + 1] + s]_vars

\* ===================================================================
\* Properties of the router machine
\* ===================================================================
ExcludedSet(excluded) == {excluded[i] : i \in DOMAIN excluded}

\* the last stage of the committed path
DestinationStage == rout.path[Len(rout.path)]

\* C1: whenever route returns Some for a unicast bundle, the committed
\* destination stage arrives at or before the bundle's expiration, whatever
\* the manager type and whether the route is fresh or comes from storage.
C1_CommittedArrivalWithinExpiration ==
    rout.some => DestinationStage.at_time <= rout.bundle.expiration

\* C2: no stage of a route returned by either router has its to_node in
\* the excluded list of the call.
C2_RouteAvoidsExcludedNodes ==
    rout.some =>
        \A i \in DOMAIN rout.path :
            rout.path[i].to_node \notin ExcludedSet(rout.excluded)

\* the stages of the time-respecting chains of contacts: a chain starts at
\* the source at current_time and each hop is a dry run at the arrival of
\* the hop before, on a contact that has not ended, to a node not excluded
ChainSource(source, current_time) ==
    [to_node |-> source, at_time |-> current_time, hop_count |-> 0,
     expiration |-> DateMax]

ChainHop(plan, bundle, s, c) ==
    [to_node |-> plan[c].info.rx_node,
     at_time |-> dry_run_tx(plan[c].manager, plan[c].info, s.at_time,
                            bundle).arrival,
     hop_count |-> s.hop_count + 1,
     expiration |-> Min2(s.expiration, plan[c].info.end)]

ChainFeasible(plan, bundle, current_time, excluded, s, c) ==
    /\ plan[c].info.tx_node = s.to_node
    /\ plan[c].info.rx_node \notin excluded
    /\ plan[c].info.end > current_time
    /\ dry_run_tx(plan[c].manager, plan[c].info, s.at_time, bundle).ok

RECURSIVE ChainStages(_, _, _, _, _, _)
ChainStages(plan, bundle, current_time, excluded, stages, hops) ==
    IF hops = 0 THEN stages
    ELSE ChainStages(plan, bundle, current_time, excluded,
             stages \cup
             {ChainHop(plan, bundle, p[1], p[2]) :
                  p \in {q \in stages \X DOMAIN plan :
                            ChainFeasible(plan, bundle, current_time,
                                          excluded, q[1], q[2])}},
             hops - 1)

\* what the search of a router is asked: Spsn builds the tree for the
\* bundle and the exclusions, Cgr the path to the destination for the
\* bundle without constraints
SearchNodes(kind, bundle) ==
    IF kind = "Spsn" THEN Nodes ELSE {bundle.destinations[1]}

SearchBundle(kind, bundle) ==
    IF kind = "Spsn" THEN bundle ELSE [bundle EXCEPT !.priority = 1, !.size = 0]

SearchExcluded(kind, excluded) ==
    IF kind = "Spsn" THEN ExcludedSet(excluded) ELSE {}

SearchIsMinimal(plan, kind, call) ==
    \A s \in ChainStages(plan, SearchBundle(kind, call.bundle),
                         call.curr_time,
                         SearchExcluded(kind, call.excluded),
                         {ChainSource(call.source, call.curr_time)},
                         Len(plan)) :
        s.to_node \in SearchNodes(kind, call.bundle) =>
            SABRCmp(call.search[s.to_node], s) <= 0

\* C8: with the SABR distance, the stage get_next leaves for a node is
\* minimal in the SABR order among the stages of all feasible
\* time-respecting chains of contacts from the source to that node, parallel
\* contacts included; the chains are taken on the managers as the search
\* found them.
C8_SearchIsSABRMinimal ==
    [][rout'.fresh => SearchIsMinimal(contacts, router, rout')]_vars

PlanInfos(plan) == [i \in DOMAIN plan |-> plan[i].info]

\* the first call on the chain of EVL contacts, for the bundle of size 10
\* and expiration 1000 at time 0 with nothing excluded
ChainCase ==
    /\ rcalls = 1
    /\ PlanInfos(contacts) = PlanInfos(ChainPlan("EVL"))
    /\ \A i \in DOMAIN contacts : contacts[i].manager.kind = "EVL"
    /\ rout.source = 0
    /\ rout.bundle = Bundle(0, <<3>>, 0, 10, 1000)
    /\ rout.curr_time = 0
    /\ rout.excluded = <<>>

\* C9: on the chain 0 -> 1 [0,100], 1 -> 2 [20,200], 2 -> 3 [40,300] of EVL
\* contacts of rate 1 and delay 10, the bundle of size 10 and expiration
\* 1000 routed from 0 to 3 at time 0 gets a route whose destination stage
\* has at_time 60 and hop_count 3.
C9_ChainArrival ==
    ChainCase =>
        /\ rout.some
        /\ DestinationStage.to_node = 3
        /\ DestinationStage.at_time = 60
        /\ DestinationStage.hop_count = 3

C9_Witness ==
    /\ ChainCase
    /\ rout.some
    /\ rout.fresh
    /\ Len(rout.path) = 3

\* ===================================================================
\* The priority machine: one contact whose three maximum available
\* volumes equal its capacity, dry runs and schedules
\* ===================================================================
FillStart == 0
FillEnd == 8
FillKinds == PriorityKinds

PInit ==
    /\ \E kind \in FillKinds :
          LET volume == FillEnd - FillStart
              c == ContactTryNew(ContactInfo(0, 1, FillStart, FillEnd),
                                 PriorityNew(kind, 1, 1,
                                             <<volume, volume, volume>>))
          IN /\ c.ok
             /\ info = c.info
             /\ manager = c.manager
    /\ scheduled = 0
    /\ last = NoCall
    /\ ops = 0
    /\ router = "Spsn"
    /\ contacts = <<>>
    /\ cursor = NoCursor
    /\ storage = TreeCache(FALSE, FALSE, MaxEntries)
    /\ guard = Guard(FALSE)
    /\ rout = NoRoute
    /\ rcalls = 0
    /\ operands = NoOperands
    /\ order = NoOrder
    /\ run = NoRun

PNext ==
    \/ \E at_time \in AtTimes, bundle \in Bundles : DryRun(at_time, bundle)
    \/ Schedule

SpecPriority == PInit /\ [][PNext]_vars

\* the volume scheduled so far with a priority above 0 (the automatically
\* updated managers count it in queue_size)
HigherQueue == manager.queue_size[2] + manager.queue_size[3]

\* C11: on a PEVL manager, once bundles of priority 1 and 2 whose sizes sum
\* to the capacity of the contact have been scheduled, every dry_run_tx of
\* a priority-0 bundle of positive size returns None.
C11_BulkRejectedWhenFilled ==
    (/\ manager.kind = "PEVL"
     /\ HigherQueue = manager.original_volume
     /\ last.op = "dry_run_tx"
     /\ last.bundle.priority = 0
     /\ last.bundle.size > 0) => ~last.res.ok

\* ===================================================================
\* The queue-delay managers
\* ===================================================================
QueueDelayKinds == {"QD", "PQD"}

\* the volume queued ahead of a bundle of priority p: all of it on QD, the
\* queues of priority p and above on PQD
QueuedAhead(m, p) ==
    IF m.kind = "QD" THEN m.queue_size
    ELSE (IF p <= 0 THEN m.queue_size[1] ELSE 0)
         + (IF p <= 1 THEN m.queue_size[2] ELSE 0)
         + m.queue_size[3]

\* the queue after bundle.size was added to it
QueuePlus(m, bundle) ==
    IF m.kind = "QD" THEN m.queue_size + bundle.size
    ELSE [m.queue_size EXCEPT ![bundle.priority + 1] = @ + bundle.size]

ScheduleAddsToQueue ==
    (manager'.kind \in QueueDelayKinds /\ last'.op = "schedule_tx"
     /\ last'.res.ok) =>
        manager'.queue_size = QueuePlus(manager, last'.bundle)

ScenarioBundles == {Bundle(0, <<3>>, 0, size, 1000) : size \in {5, 10}}

QInit ==
    /\ \E i \in DOMAIN ChainPlan("QD") :
          /\ info = ChainPlan("QD")[i].info
          /\ manager = ChainPlan("QD")[i].manager
    /\ scheduled = 0
    /\ last = NoCall
    /\ ops = 0
    /\ router = "Spsn"
    /\ contacts = <<>>
    /\ cursor = NoCursor
    /\ storage = TreeCache(FALSE, FALSE, MaxEntries)
    /\ guard = Guard(FALSE)
    /\ rout = NoRoute
    /\ rcalls = 0
    /\ operands = NoOperands
    /\ order = NoOrder
    /\ run = NoRun

QNext ==
    \/ \E at_time \in AtTimes, bundle \in ScenarioBundles :
          DryRun(at_time, bundle)
    \/ Schedule

SpecQueue == QInit /\ [][QNext]_vars

\* a dry run of the bundle of size 5 and priority 0 at time 0 on the contact
\* 0 -> 1 [0,100] with a QD manager that has 10 units queued
QueueCase ==
    /\ info = ContactInfo(0, 1, 0, 100)
    /\ manager.kind = "QD"
    /\ manager.rate = 1
    /\ manager.queue_size = 10
    /\ last.op = "dry_run_tx"
    /\ last.at_time = 0
    /\ last.bundle.size = 5
    /\ last.bundle.priority = 0

\* C13: on the chain with QD managers and 10 units already queued on the
\* contact 0 -> 1, a bundle of size 5 and priority 0 presented at time 0
\* gets tx_start = 10 and tx_end = 15 on that contact: the queue delays the
\* start by queue_size / rate although the contact has started at at_time.
C13_QueueDelaysStart ==
    QueueCase =>
        /\ last.res.ok
        /\ last.res.tx_start = 10
        /\ last.res.tx_end = 15

C13_Witness ==
    /\ QueueCase
    /\ scheduled = 10
    /\ last.res.ok
    /\ info.start <= last.at_time

\* ===================================================================
\* The manually updated managers
\* ===================================================================
\* every dry run gives on manager m2 what it gives on manager m1
SameTiming(m1, m2) ==
    \A at_time \in AtTimes, bundle \in Bundles :
        dry_run_tx(m2, info, at_time, bundle) = dry_run_tx(m1, info, at_time, bundle)

\* every dry run that succeeds on m1 and on m2 starts later on m2, by shift
StartsLater(m1, m2, shift) ==
    \A at_time \in AtTimes, bundle \in Bundles :
        LET before == dry_run_tx(m1, info, at_time, bundle)
            after == dry_run_tx(m2, info, at_time, bundle)
        IN (before.ok /\ after.ok) => after.tx_start = before.tx_start + shift

\* C14: on an ETO manager schedule_tx leaves queue_size unchanged, so every
\* dry run returns after a schedule_tx what it returned before it; only
\* enqueue and dequeue change the queue; and after enqueue(b) the tx_start
\* of a dry run is later by exactly b.size / rate than it was before, the
\* arguments being the same.
C14_ManualQueueOnly ==
    [][manager.kind = "ETO" =>
          /\ last'.op = "schedule_tx" =>
                /\ manager'.queue_size = manager.queue_size
                /\ SameTiming(manager, manager')
          /\ manager'.queue_size # manager.queue_size =>
                last'.op \in {"enqueue", "dequeue"}
          /\ (last'.op = "enqueue" /\ ~last'.panic) =>
                /\ manager'.queue_size = manager.queue_size + last'.bundle.size
                /\ StartsLater(manager, manager',
                               last'.bundle.size \div manager.rate)]_vars

\* an enqueue went through on an ETO manager after a schedule_tx, and a dry
\* run still succeeds behind the queue
C14_Witness ==
    /\ manager.kind = "ETO"
    /\ scheduled > 0
    /\ last.op = "enqueue"
    /\ ~last.panic
    /\ manager.queue_size = last.bundle.size
    /\ \E at_time \in AtTimes, bundle \in Bundles :
          /\ dry_run_tx(manager, info, at_time, bundle).ok
          /\ dry_run_tx(manager, info, at_time, bundle).tx_start
                 = Max2(at_time, info.start)
                   + (last.bundle.size \div manager.rate)

\* the volume queued on a manually updated manager, all priorities together
TotalQueued(m) ==
    IF m.kind = "ETO" THEN m.queue_size
    ELSE m.queue_size[1] + m.queue_size[2] + m.queue_size[3]

\* C15: on ETO and PETO, an enqueue that would make the queued volume exceed
\* original_volume and a dequeue of more than is queued are fatal errors
\* that leave the queue unchanged; hence after every enqueue or dequeue
\* that returned, 0 <= total queued volume <= original_volume.
C15_QueueWithinVolume ==
    [][manager.kind \in ManualKinds =>
          /\ (/\ last'.op = "enqueue"
              /\ TotalQueued(manager) + last'.bundle.size
                     > manager.original_volume) =>
                 (last'.panic /\ manager'.queue_size = manager.queue_size)
          /\ (/\ last'.op = "dequeue"
              /\ TotalQueued(manager) < last'.bundle.size) =>
                 (last'.panic /\ manager'.queue_size = manager.queue_size)
          /\ 0 <= TotalQueued(manager')
          /\ TotalQueued(manager') <= manager'.original_volume]_vars

\* ===================================================================
\* The segmentation managers
\* ===================================================================
\* the unit slots [t, t + 1] of the window [start, end]
Slots(start, end) == {t \in start..(end - 1) : TRUE}

\* the free time of a SegmentationManager, as unit slots
FreeSet(free_intervals) ==
    UNION {Slots(free_intervals[k].start, free_intervals[k].end) :
               k \in DOMAIN free_intervals}

\* C16: on a SegmentationManager, a schedule_tx that follows a successful
\* dry_run_tx returns a window [tx_start, tx_end], and the free time after
\* it is the free time before it minus that window, in every reachable
\* state, also when free intervals that end before at_time precede the
\* chosen one.
C16_FreeTimeMinusWindow ==
    [][(manager.kind = "Seg" /\ last'.op = "schedule_tx") =>
          /\ ~last'.panic
          /\ last'.res.ok
          /\ FreeSet(manager'.free_intervals)
                 = FreeSet(manager.free_intervals)
                   \ Slots(last'.res.tx_start, last'.res.tx_end)]_vars

\* the booking segments of a PSegmentationManager that cover slot t all
\* have a priority below p, and some segment covers it
BookedBelow(booking, t, p) ==
    /\ \E k \in DOMAIN booking : booking[k].start <= t /\ t < booking[k].end
    /\ \A k \in DOMAIN booking :
          (booking[k].start <= t /\ t < booking[k].end) => booking[k].val < p

\* at or after at_time there is a window, booked below the priority of the
\* bundle throughout, in which the rate segments carry bundle.size before
\* the contact ends
PSegFeasible(m, contact_data, at_time, bundle) ==
    \E tx_start \in Max2(at_time, contact_data.start)..contact_data.end :
        LET tx_end == get_tx_end(m.rate_intervals, tx_start, bundle.size,
                                 contact_data.end)
        IN /\ tx_end.some
           /\ \A t \in Slots(tx_start, tx_end.v) :
                 BookedBelow(m.booking, t, bundle.priority)

\* C17: on a PSegmentationManager, dry_run_tx for a bundle of priority p
\* returns Some whenever, at or after at_time, a contiguous run of booking
\* segments of priority below p can carry bundle.size before the contact
\* ends; in particular on a freshly initialised contact every bundle of
\* priority >= 0 that fits between max(at_time, info.start) and info.end
\* gets Some.
C17_FeasibleGetsSome ==
    (/\ manager.kind = "PSeg"
     /\ last.op = "dry_run_tx"
     /\ last.bundle.size > 0
     /\ PSegFeasible(manager, info, last.at_time, last.bundle)) => last.res.ok

\* ===================================================================
\* Construction of a segmented contact: Contact::try_new over every contact
\* window and every rate and delay segmentation of at most two segments
\* with dates up to MaxSegTime
\* ===================================================================
MaxSegTime == 2

SegDates == 0..MaxSegTime

\* the segments [start, end] with start < end, carrying val
SegmentsOf(val) ==
    {Segment(x[1], x[2], val) : x \in {y \in SegDates \X SegDates : y[1] < y[2]}}

\* no segment, one segment, or two segments
Segmentations(val) ==
    {<<>>} \cup {<<a>> : a \in SegmentsOf(val)}
           \cup {<<a, b>> : <<a, b>> \in SegmentsOf(val) \X SegmentsOf(val)}

SegInfos == {ContactInfo(0, 1, start, end) : start \in SegDates, end \in SegDates}

SegKinds == {"Seg", "PSeg"}

\* a manager as new() leaves it, with the contact it will be tried on
TInit ==
    /\ info \in SegInfos
    /\ \E kind \in SegKinds, rate_intervals \in Segmentations(1), delay_intervals \in Segmentations(1) :
          manager = IF kind = "Seg" THEN SegNew(rate_intervals, delay_intervals)
                    ELSE PSegNew(rate_intervals, delay_intervals)
    /\ scheduled = 0
    /\ last = NoCall
    /\ ops = 0
    /\ router = "Spsn"
    /\ contacts = <<>>
    /\ cursor = NoCursor
    /\ storage = TreeCache(FALSE, FALSE, MaxEntries)
    /\ guard = Guard(FALSE)
    /\ rout = NoRoute
    /\ rcalls = 0
    /\ operands = NoOperands
    /\ order = NoOrder
    /\ run = NoRun

\* Contact::try_new(info, manager): on Some the contact holds the manager
\* try_init left, on None there is no contact
TryNew ==
    /\ last.op = "none"
    /\ LET c == ContactTryNew(info, manager)
       IN /\ manager' = IF c.ok THEN c.manager ELSE manager
          /\ last' = [NoCall EXCEPT !.op = "try_new", !.res.ok = c.ok]
    /\ UNCHANGED <<info, scheduled, ops>>
    /\ UNCHANGED rvars
    /\ UNCHANGED cvars

TNext == TryNew

SpecTryNew == TInit /\ [][TNext]_vars

\* the segments are not empty, start at info.start, end at info.end, and
\* each one starts where the one before it ended
CoversContact(intervals, contact_data) ==
    /\ Len(intervals) > 0
    /\ intervals[1].start = contact_data.start
    /\ intervals[Len(intervals)].end = contact_data.end
    /\ \A k \in 2..Len(intervals) : intervals[k].start = intervals[k - 1].end

\* free_intervals of Seg, booking of PSeg
OtherIntervals(m) == IF m.kind = "Seg" THEN m.free_intervals ELSE m.booking

\* C18: Contact::try_new returns Some for a segmented contact if and only
\* if info.start < info.end and the rate segments, and the delay segments,
\* are not empty, start at info.start, end at info.end and follow one
\* another without a hole; on Some, free_intervals (or booking) is exactly
\* one segment [info.start, info.end]; otherwise nothing was added to it.
C18_TryNewAcceptsExactCover ==
    last.op = "try_new" =>
        /\ last.res.ok <=> (/\ info.start < info.end
                            /\ CoversContact(manager.rate_intervals, info)
                            /\ CoversContact(manager.delay_intervals, info))
        /\ last.res.ok =>
              /\ Len(OtherIntervals(manager)) = 1
              /\ OtherIntervals(manager)[1].start = info.start
              /\ OtherIntervals(manager)[1].end = info.end
        /\ ~last.res.ok => OtherIntervals(manager) = <<>>

\* a contact with two rate segments and one delay segment was accepted
C18_Witness ==
    /\ last.op = "try_new"
    /\ last.res.ok
    /\ Len(manager.rate_intervals) = 2
    /\ Len(manager.delay_intervals) = 1
    /\ Len(OtherIntervals(manager)) = 1

\* ===================================================================
\* The comparison machine: SABR::cmp, Hop::cmp and eq over every triple of
\* route stages with keys up to MaxKey
\* ===================================================================
MaxKey == 2

Keys == 0..MaxKey

KeyStages ==
    {RouteStage(0, at_time, hop_count, expiration, NoContact, NoNode) :
         at_time \in Keys, hop_count \in Keys, expiration \in Keys}

Distances == {"SABR", "Hop"}

CInit ==
    /\ operands \in KeyStages \X KeyStages \X KeyStages
    /\ order = NoOrder
    /\ run = NoRun
    /\ info = ContactInfo(0, 1, ContactStart, ContactEnd)
    /\ manager = BasicTryInit(BasicNew("EVL", 1, 1), info)
    /\ scheduled = 0
    /\ last = NoCall
    /\ ops = 0
    /\ router = "Spsn"
    /\ contacts = <<>>
    /\ cursor = NoCursor
    /\ storage = TreeCache(FALSE, FALSE, MaxEntries)
    /\ guard = Guard(FALSE)
    /\ rout = NoRoute
    /\ rcalls = 0

\* D::cmp on the pairs (a, b), (b, a), (b, c), (a, c) and D::eq on (a, b)
Compare(distance) ==
    /\ order.distance = "none"
    /\ order' = [distance |-> distance,
                 ab |-> DistanceCmp(distance, operands[1], operands[2]),
                 ba |-> DistanceCmp(distance, operands[2], operands[1]),
                 bc |-> DistanceCmp(distance, operands[2], operands[3]),
                 ac |-> DistanceCmp(distance, operands[1], operands[3]),
                 eq_ab |-> DistanceEq(distance, operands[1], operands[2])]
    /\ UNCHANGED operands
    /\ UNCHANGED run
    /\ UNCHANGED mvars
    /\ UNCHANGED rvars

CNext == \E distance \in Distances : Compare(distance)

SpecCmp == CInit /\ [][CNext]_vars

\* the order of two key sequences by their first differing key, each key
\* ascending: -1, 0 or 1
Lexicographic(ka, kb) ==
    IF ka = kb THEN 0
    ELSE LET i == CHOOSE i \in DOMAIN ka :
                      /\ ka[i] # kb[i]
                      /\ \A j \in DOMAIN ka : j < i => ka[j] = kb[j]
         IN IF ka[i] < kb[i] THEN -1 ELSE 1

\* at_time ascending, hop_count ascending, expiration descending
SABRKeys(s) == <<s.at_time, s.hop_count, 0 - s.expiration>>

\* hop_count ascending, at_time ascending, expiration descending
HopKeys(s) == <<s.hop_count, s.at_time, 0 - s.expiration>>

\* the comparisons recorded are those of a strict total order
TotalOrder ==
    /\ order.ba = 0 - order.ab
    /\ (order.ab <= 0 /\ order.bc <= 0) => order.ac <= 0
    /\ (order.ab < 0 /\ order.bc <= 0) => order.ac < 0
    /\ (order.ab <= 0 /\ order.bc < 0) => order.ac < 0

\* C19: SABR::cmp is the lexicographic total order on (at_time ascending,
\* hop_count ascending, expiration descending): it returns Less or Greater
\* by the first differing key, Equal exactly when the three keys are equal,
\* as SABR::eq does, and it is antisymmetric and transitive.
C19_SABRCmpLexicographic ==
    order.distance = "SABR" =>
        /\ order.ab = Lexicographic(SABRKeys(operands[1]), SABRKeys(operands[2]))
        /\ order.bc = Lexicographic(SABRKeys(operands[2]), SABRKeys(operands[3]))
        /\ order.ab = 0 <=> SABRKeys(operands[1]) = SABRKeys(operands[2])
        /\ order.ab = 0 <=> order.eq_ab
        /\ TotalOrder

\* SABR::cmp decided a pair by the expiration, after two equal keys, and
\* ordered a chain a < b < c
C19_Witness ==
    /\ order.distance = "SABR"
    /\ operands[1].at_time = operands[2].at_time
    /\ operands[1].hop_count = operands[2].hop_count
    /\ operands[1].expiration > operands[2].expiration
    /\ order.ab = -1
    /\ operands[2].at_time < operands[3].at_time
    /\ operands[2].hop_count > operands[3].hop_count
    /\ order.bc = -1
    /\ order.ac = -1

\* C20: Hop::cmp is the lexicographic total order on (hop_count ascending,
\* at_time ascending, expiration descending): a stage with fewer hops
\* compares Less whatever the arrival times, equal hop counts are decided
\* by the earlier at_time, then by the later expiration, and Equal is
\* returned exactly when the three keys are equal.
C20_HopCmpLexicographic ==
    order.distance = "Hop" =>
        /\ order.ab = Lexicographic(HopKeys(operands[1]), HopKeys(operands[2]))
        /\ order.bc = Lexicographic(HopKeys(operands[2]), HopKeys(operands[3]))
        /\ operands[1].hop_count < operands[2].hop_count => order.ab = -1
        /\ order.ab = 0 <=> HopKeys(operands[1]) = HopKeys(operands[2])
        /\ order.ab = 0 <=> order.eq_ab
        /\ TotalOrder

\* Hop::cmp put a stage with fewer hops and a later arrival first, and
\* decided a pair of equal hop_count and at_time by the expiration
C20_Witness ==
    /\ order.distance = "Hop"
    /\ operands[1].hop_count < operands[2].hop_count
    /\ operands[1].at_time > operands[2].at_time
    /\ order.ab = -1
    /\ operands[2].hop_count = operands[3].hop_count
    /\ operands[2].at_time = operands[3].at_time
    /\ operands[2].expiration > operands[3].expiration
    /\ order.bc = -1

\* ===================================================================
\* The Guard of the SPSN router
\* ===================================================================
\* the destination of the bundle of the last call of route
RoutedDest == rout.bundle.destinations[1]

\* the limit the Guard holds for the destination and the effective priority
\* of the bundle of the last call, NoLimit if it holds none
RoutedLimit == guard.known_limits[<<RoutedDest, GuardPriority(guard, rout.bundle)>>]

\* the last call ran pathfinding and the tree holds no route to the
\* destination: its stage is the work-area stage it was created with
SearchMissedDest ==
    /\ rout.fresh
    /\ rout.search[RoutedDest] = RouteStageNewWorkArea(RoutedDest)

\* C21: when SPSN unicast routing runs pathfinding and the tree contains no
\* route to the destination, route returns None and the Guard afterwards
\* holds a limit for (dest, effective priority) that is <= bundle.size.
C21_MissedDestRecordsLimit ==
    (router = "Spsn" /\ SearchMissedDest) =>
        /\ ~rout.some
        /\ RoutedLimit # NoLimit
        /\ RoutedLimit <= rout.bundle.size

\* the guard machine: an SPSN router on the diamond, limits added to its
\* Guard, calls of route at time 0 with nothing excluded
GuardDests == {2, 3}
GuardBundles ==
    {Bundle(0, <<3>>, priority, size, 1000) :
         priority \in {0, 1}, size \in RouteSizes}

GInit ==
    /\ router = "Spsn"
    /\ contacts = DiamondPlan("EVL")
    /\ cursor = NoCursor
    /\ storage = TreeCache(FALSE, FALSE, MaxEntries)
    /\ guard \in {Guard(FALSE), Guard(TRUE)}
    /\ rout = NoRoute
    /\ rcalls = 0
    /\ operands = NoOperands
    /\ order = NoOrder
    /\ run = NoRun
    /\ info = ContactInfo(0, 1, ContactStart, ContactEnd)
    /\ manager = BasicTryInit(BasicNew("EVL", 1, 1), info)
    /\ scheduled = 0
    /\ last = NoCall
    /\ ops = 0

\* Guard::add_limit(bundle, dest) on the guard of the router; last records
\* the call
AddLimit(bundle, dest) ==
    /\ guard' = add_limit(guard, bundle, dest)
    /\ last' = [NoCall EXCEPT !.op = "add_limit", !.bundle = bundle] @@ [dest |-> dest]
    /\ UNCHANGED <<info, manager, scheduled, ops>>
    /\ UNCHANGED <<router, contacts, cursor, storage, rout, rcalls>>
    /\ UNCHANGED cvars

GNext ==
    \/ \E bundle \in GuardBundles, dest \in GuardDests : AddLimit(bundle, dest)
    \/ \E bundle \in GuardBundles : Route(0, bundle, 0, <<>>)

SpecGuard == GInit /\ [][GNext]_vars

\* the Guard g holds, for every destination of the bundle, a limit under
\* (destination, effective priority) that the size of the bundle is
\* strictly below
BelowEveryLimit(g, bundle) ==
    LET priority == IF g.with_priorities THEN bundle.priority ELSE 0
    IN \A i \in DOMAIN bundle.destinations :
          /\ g.known_limits[<<bundle.destinations[i], priority>>] # NoLimit
          /\ bundle.size < g.known_limits[<<bundle.destinations[i], priority>>]

\* the call of route returned None without a search, a replay or a panic
Aborted(r) == ~r.some /\ ~r.fresh /\ ~r.panic

\* C22: SPSN route_unicast aborts, returning None before storage is
\* consulted, pathfinding is run or a manager is touched, exactly when for
\* every destination of the bundle the Guard holds a limit under
\* (destination, effective priority) and bundle.size is strictly less than
\* that limit, the effective priority being bundle.priority if the router
\* was built with priorities and 0 otherwise.
C22_AbortBelowEveryLimit ==
    [][(router = "Spsn" /\ rcalls' = rcalls + 1) =>
          /\ Aborted(rout') <=> BelowEveryLimit(guard, rout'.bundle)
          /\ Aborted(rout') =>
                /\ contacts' = contacts
                /\ cursor' = cursor
                /\ storage' = storage
                /\ guard' = guard]_vars

\* a router built with priorities aborted a call for a bundle of priority 1
\* below the limit of its destination, and one of priority 0 went through
C22_Witness ==
    /\ router = "Spsn"
    /\ rcalls = 2
    /\ guard.with_priorities
    /\ rout.bundle.priority = 1
    /\ Aborted(rout)
    /\ rout.bundle.size < RoutedLimit
    /\ guard.known_limits[<<RoutedDest, 0>>] = NoLimit
    /\ \E i \in DOMAIN contacts : contacts[i].manager.queue_size > 0

\* the key of the last call of add_limit
AddedKey == <<last.dest, GuardPriority(guard, last.bundle)>>
MinLimit(val, size) == IF val # NoLimit /\ val <= size THEN val ELSE size

MaxStores == 3
StoredTrees ==
    {StorageEntry(bundle, 0, excluded, NoSearch) :
         bundle \in {b \in RouteBundles : b.expiration = 1000},
         excluded \in Exclusions}

SInit ==
    /\ router = "Spsn"
    /\ contacts = DiamondPlan("EVL")
    /\ cursor = NoCursor
    /\ storage \in {TreeCache(FALSE, FALSE, n) : n \in 0..MaxEntries}
    /\ guard = Guard(FALSE)
    /\ rout = NoRoute
    /\ rcalls = 0
    /\ operands = NoOperands
    /\ order = NoOrder
    /\ run = NoRun
    /\ info = ContactInfo(0, 1, ContactStart, ContactEnd)
    /\ manager = BasicTryInit(BasicNew("EVL", 1, 1), info)
    /\ scheduled = 0
    /\ last = NoCall
    /\ ops = 0

\* TreeCache::store(bundle, new_tree); last records the tree
Store(new_tree) ==
    /\ ops < MaxStores
    /\ storage' = [storage EXCEPT !.trees = TreeCacheStore(storage, new_tree)]
    /\ last' = [NoCall EXCEPT !.op = "store"] @@ [new_tree |-> new_tree]
    /\ ops' = ops + 1
    /\ UNCHANGED <<info, manager, scheduled>>
    /\ UNCHANGED <<router, contacts, cursor, guard, rout, rcalls>>
    /\ UNCHANGED cvars

SNext == \E new_tree \in StoredTrees : Store(new_tree)

SpecStore == SInit /\ [][SNext]_vars

\* the entries of the trees that were computed with the exclusion list
WithExclusions(trees, excluded) ==
    {i \in DOMAIN trees : trees[i].excluded = excluded}

\* what store leaves, from the statement of it: the tree in the place of
\* the entry of the same exclusion list, else the tree appended and the
\* oldest entry dropped when the count exceeds max_entries
StoredInPlaceOrAppended(cache, new_tree) ==
    LET same == WithExclusions(cache.trees, new_tree.excluded)
        appended == Append(cache.trees, new_tree)
    IN IF same # {}
       THEN [i \in DOMAIN cache.trees |->
                IF i \in same THEN new_tree ELSE cache.trees[i]]
       ELSE IF Len(appended) > cache.max_entries
       THEN SubSeq(appended, 2, Len(appended))
       ELSE appended

\* C24: TreeCache.store replaces in place the entry whose
\* excluded_nodes_sorted equals the new tree's if one exists, otherwise
\* appends the tree and, if the count then exceeds max_entries, drops the
\* oldest entry; after any sequence of store calls the cache holds at most
\* max_entries trees and at most one tree per distinct exclusion list.
C24_StoreReplacesOrAppends ==
    [][(ops' = ops + 1) =>
          /\ storage'.trees = StoredInPlaceOrAppended(storage, last'.new_tree)
          /\ Len(storage'.trees) <= storage'.max_entries
          /\ \A excluded \in Exclusions :
                Cardinality(WithExclusions(storage'.trees, excluded)) <= 1
          /\ storage'.max_entries = storage.max_entries]_vars

\* the third store replaced the oldest of the two entries of a full cache
\* in place
C24_Witness ==
    /\ last.op = "store"
    /\ ops = 3
    /\ storage.max_entries = 2
    /\ Len(storage.trees) = 2
    /\ storage.trees[1] = last.new_tree
    /\ storage.trees[1].bundle.size = 10
    /\ storage.trees[2].excluded = <<>>

\* the multicast machine: an SPSN router on a fork 0 -> 1 -> {2, 3} whose
\* contact 0 -> 1 is shared by the two destinations
ForkPlan(kind) ==
    <<MakeContact(kind, 0, 1, 0, 30, 1, 1),
      MakeContact(kind, 1, 2, 0, 30, 1, 1),
      MakeContact(kind, 1, 3, 0, 12, 1, 1)>>

ForkKinds == {"EVL", "QD"}
ForkDestinations == {<<2>>, <<3>>, <<2, 3>>}
ForkBundles ==
    {Bundle(0, destinations, 0, size, 1000) :
         destinations \in ForkDestinations, size \in RouteSizes}

FInit ==
    /\ router = "Spsn"
    /\ contacts \in {ForkPlan(kind) : kind \in ForkKinds}
    /\ cursor = NoCursor
    /\ storage = TreeCache(FALSE, FALSE, MaxEntries)
    /\ guard = Guard(FALSE)
    /\ rout = NoRoute
    /\ rcalls = 0
    /\ operands = NoOperands
    /\ order = NoOrder
    /\ run = NoRun
    /\ info = ContactInfo(0, 1, ContactStart, ContactEnd)
    /\ manager = BasicTryInit(BasicNew("EVL", 1, 1), info)
    /\ scheduled = 0
    /\ last = NoCall
    /\ ops = 0

\* Spsn::route: route_unicast for one destination, route_multicast otherwise
SpsnRoute(source, bundle, curr_time, excluded) ==
    /\ rcalls < MaxRoutes
    /\ ~rout.panic
    /\ curr_time >= rout.curr_time
    /\ Commit(IF Len(bundle.destinations) = 1
              THEN SpsnRouteUnicast(RouterState(contacts, cursor, storage,
                                                guard),
                                    "SABR", source, bundle, curr_time,
                                    excluded)
              ELSE SpsnRouteMulticast(RouterState(contacts, cursor, storage,
                                                  guard),
                                      "SABR", source, bundle, curr_time,
                                      excluded),
              source, bundle, curr_time, excluded)
    /\ rcalls' = rcalls + 1
    /\ UNCHANGED router
    /\ UNCHANGED mvars
    /\ UNCHANGED cvars

FNext ==
    \E bundle \in ForkBundles, curr_time \in RouteTimes,
       excluded \in {<<>>, <<2>>} : SpsnRoute(0, bundle, curr_time, excluded)

SpecMulticast == FInit /\ [][FNext]_vars

\* the dry-run replay of a stored tree with the bundle at curr_time against
\* the managers of the plan succeeds end-to-end: to the destination of a
\* unicast bundle, to every destination of a multicast bundle
ReplaySucceeds(plan, entry, bundle, curr_time) ==
    IF Len(bundle.destinations) = 1
    THEN dry_run_unicast_tree(plan, entry.tree, bundle, curr_time,
                              entry.source).ok
    ELSE dry_run_multicast(plan, entry.tree, bundle, curr_time,
                           entry.source).reached = DestinationSet(bundle)

\* C25: SPSN commits a bundle on a cached tree, instead of computing a fresh
\* one, only if the recorded excluded_nodes_sorted of the tree equals the
\* request's and the dry-run replay of that tree with the current bundle
\* and curr_time against the current manager states succeeds end-to-end: to
\* the destination for unicast, to every destination for multicast.
C25_CachedTreeReplayed ==
    [][(router = "Spsn" /\ rcalls' = rcalls + 1 /\ ~rout'.fresh
            /\ rout'.path # <<>>) =>
          \E i \in DOMAIN storage.trees :
              /\ storage.trees[i].excluded = rout'.excluded
              /\ ReplaySucceeds(contacts, storage.trees[i], rout'.bundle,
                                rout'.curr_time)]_vars

\* what one call of route booked on contact c of the plan
Booked(c) == contacts'[c].manager.queue_size - contacts[c].manager.queue_size

RECURSIVE ViaContacts(_, _, _)
\* the contacts of the stages from the stage of node n back to the source
ViaContacts(stages, n, fuel) ==
    LET at == {i \in DOMAIN stages : stages[i].to_node = n}
    IN IF at = {} \/ fuel = 0 THEN {}
       ELSE LET stage == stages[CHOOSE i \in at : TRUE]
            IN {stage.via_contact}
                   \cup ViaContacts(stages, stage.via_parent, fuel - 1)

\* the destinations the call reached: schedule booked the contact into them
ReachedDestinations ==
    {d \in DestinationSet(rout'.bundle) :
        \E i \in DOMAIN rout'.path :
            /\ rout'.path[i].to_node = d
            /\ Booked(rout'.path[i].via_contact) > 0}

\* C27: in one multicast call of route, schedule_tx is invoked at most once
\* on any contact, however many destinations share it on their paths: after
\* the call a contact on a prefix shared by k >= 2 reached destinations has
\* its booked volume increased by bundle.size exactly once, not k times.
C27_SharedContactBookedOnce ==
    [][(rcalls' = rcalls + 1 /\ Len(rout'.bundle.destinations) > 1) =>
          /\ \A i, j \in DOMAIN rout'.path :
                i # j => rout'.path[i].via_contact # rout'.path[j].via_contact
          /\ \A c \in DOMAIN contacts :
                /\ Booked(c) \in {0, rout'.bundle.size}
                /\ Booked(c) > 0 =>
                      \E i \in DOMAIN rout'.path :
                          rout'.path[i].via_contact = c
                /\ Cardinality({d \in ReachedDestinations :
                                   c \in ViaContacts(rout'.path, d,
                                                     MaxNode + 1)}) >= 2
                      => Booked(c) = rout'.bundle.size]_vars

\* the first call sent 2 units to nodes 2 and 3 over the shared contact
\* 0 -> 1, which holds 2 units
C27_Witness ==
    /\ rcalls = 1
    /\ rout.bundle.destinations = <<2, 3>>
    /\ rout.bundle.size = 2
    /\ Len(rout.path) = 3
    /\ \A c \in DOMAIN contacts : contacts[c].manager.queue_size = 2

\* the arrival schedule_tx gives on the contact of the last stage of the
\* committed path, called at the at_time of the stage before it
FinalArrival(plan, path, bundle, curr_time) ==
    LET c == path[Len(path)].via_contact
        at_time == IF Len(path) = 1 THEN curr_time
                   ELSE path[Len(path) - 1].at_time
    IN schedule_tx(plan[c].manager, plan[c].info, at_time, bundle).res.arrival

\* C26: for a unicast bundle a successful route returns a RoutingOutput
\* with exactly one first_hops entry; its contact is the via contact of the
\* first stage after the source on the committed path and its stage list
\* holds exactly one stage, the final stage whose to_node is the
\* destination of the bundle, carrying the at_time read back from
\* schedule_tx.
C26_UnicastOutput ==
    [][(rcalls' = rcalls + 1 /\ Len(rout'.bundle.destinations) = 1
            /\ rout'.some) =>
          /\ Len(rout'.first_hops) = 1
          /\ rout'.path[1].via_parent = rout'.source
          /\ rout'.first_hops[1].contact = rout'.path[1].via_contact
          /\ Len(rout'.first_hops[1].stages) = 1
          /\ rout'.first_hops[1].stages[1] = rout'.path[Len(rout'.path)]
          /\ rout'.first_hops[1].stages[1].to_node =
                rout'.bundle.destinations[1]
          /\ rout'.first_hops[1].stages[1].at_time =
                FinalArrival(contacts, rout'.path, rout'.bundle,
                             rout'.curr_time)]_vars

\* a route of three hops over the chain was returned: the entry holds the
\* contact 0 -> 1 and the stage of node 3
C26_Witness ==
    /\ rout.some
    /\ Len(rout.path) = 3
    /\ Len(rout.first_hops) = 1
    /\ contacts[rout.first_hops[1].contact].info.rx_node = 1
    /\ rout.first_hops[1].stages[1].to_node = 3
    /\ rout.first_hops[1].stages[1].at_time > rout.path[2].at_time

\* the retry machine: a CGR router on two parallel contacts 0 -> 1 that end
\* at different times, and calls of route for node 1
ParallelPlan(kind) ==
    <<MakeContact(kind, 0, 1, 0, 10, 1, 1),
      MakeContact(kind, 0, 1, 0, 20, 1, 1)>>

ParallelBundles ==
    {Bundle(0, <<1>>, 0, size, expiration) :
         size \in RouteSizes, expiration \in RouteExpirations}

PPInit ==
    /\ router = "Cgr"
    /\ contacts \in {ParallelPlan(kind) : kind \in RouteKinds}
    /\ cursor = NoCursor
    /\ storage = TreeCache(FALSE, FALSE, MaxEntries)
    /\ guard = Guard(FALSE)
    /\ rout = NoRoute
    /\ rcalls = 0
    /\ operands = NoOperands
    /\ order = NoOrder
    /\ run = NoRun
    /\ info = ContactInfo(0, 1, ContactStart, ContactEnd)
    /\ manager = BasicTryInit(BasicNew("EVL", 1, 1), info)
    /\ scheduled = 0
    /\ last = NoCall
    /\ ops = 0

PPNext ==
    \E bundle \in ParallelBundles, curr_time \in RouteTimes :
        Route(0, bundle, curr_time, <<>>)

SpecRetry == PPInit /\ [][PPNext]_vars

\* the bundle can be sent on contact c of the plan from curr_time on
Fits(c, bundle, curr_time) ==
    dry_run_tx(contacts[c].manager, contacts[c].info, curr_time, bundle).ok

\* C28: with two parallel contacts 0 -> 1 of different end times, after a
\* bundle was committed that fills the earlier-ending contact, the next
\* unicast call of route for a bundle that no longer fits on it does not
\* return None: the router searches again without the exhausted contact and
\* returns a route over the later-ending contact.
C28_RetryOverLaterContact ==
    [][(/\ router = "Cgr"
        /\ rcalls' = rcalls + 1
        /\ rout.some
        /\ rout.first_hops[1].contact = 1
        /\ contacts[1].manager.kind \in BasicKinds
        /\ contacts[1].manager.queue_size = contacts[1].manager.original_volume
        /\ rout'.bundle.expiration = 1000
        /\ ~Fits(1, rout'.bundle, rout'.curr_time)
        /\ Fits(2, rout'.bundle, rout'.curr_time)) =>
          /\ rout'.some
          /\ rout'.first_hops[1].contact = 2]_vars

\* the end machine: the contact [ContactStart, ContactEnd] under each manager,
\* dry runs at the start and at the end of the contact, and the schedule_tx
\* that follows a dry run; the bundles are those of the manager machine and
\* the bundle of size 0 and priority 1 that Cgr::route_unicast searches with
EndTimes == {ContactStart, ContactEnd}
EndBundles == Bundles \cup {Bundle(0, <<1>>, 1, 0, DateMax)}

EInit ==
    /\ MInit
    /\ router = "Cgr"
    /\ contacts = <<>>
    /\ cursor = NoCursor
    /\ storage = TreeCache(FALSE, FALSE, MaxEntries)
    /\ guard = Guard(FALSE)
    /\ rout = NoRoute
    /\ rcalls = 0
    /\ operands = NoOperands
    /\ order = NoOrder
    /\ run = NoRun

ENext ==
    \/ \E at_time \in EndTimes, bundle \in EndBundles : DryRun(at_time, bundle)
    \/ Schedule

SpecEnd == EInit /\ [][ENext]_vars

\* C29: for every manager and every bundle, dry_run_tx with at_time equal to
\* info.end returns None (no remaining duration).
C29_NoneAtContactEnd ==
    (last.op = "dry_run_tx" /\ last.at_time = info.end) => ~last.res.ok

\* ===================================================================
\* The detour machine: either router on a plan where node 2 is reached
\* directly (contact 1) and over node 1 (contacts 2 and 3), and the
\* destination 3 over the short contact 4
\* ===================================================================
DetourPlan(kind) ==
    <<MakeContact(kind, 0, 2, 0, 20, 1, 6),
      MakeContact(kind, 0, 1, 0, 20, 1, 8),
      MakeContact(kind, 1, 2, 0, 20, 1, 1),
      MakeContact(kind, 2, 3, 5, 8, 1, 1)>>

DetourPlans == {DetourPlan(kind) : kind \in RouteKinds}

DetourBundles == {Bundle(0, <<3>>, 0, 2, e) : e \in RouteExpirations}

DInit ==
    /\ router \in {"Spsn", "Cgr"}
    /\ contacts \in DetourPlans
    /\ cursor = NoCursor
    /\ storage = TreeCache(FALSE, FALSE, MaxEntries)
    /\ guard = Guard(FALSE)
    /\ rout = NoRoute
    /\ rcalls = 0
    /\ operands = NoOperands
    /\ order = NoOrder
    /\ run = NoRun
    /\ info = ContactInfo(0, 1, ContactStart, ContactEnd)
    /\ manager = BasicTryInit(BasicNew("EVL", 1, 1), info)
    /\ scheduled = 0
    /\ last = NoCall
    /\ ops = 0

DetourExclusions == {<<>>, <<1>>}

DNext ==
    \E bundle \in DetourBundles, curr_time \in RouteTimes,
       excluded \in DetourExclusions : Route(0, bundle, curr_time, excluded)

SpecDetour == DInit /\ [][DNext]_vars

\* ----------------------------------------- the dry runs a call issues
RECURSIVE HopDryRuns(_, _, _, _, _)
\* the dry runs of try_make_hop that returned Some: [contact, at_time]
HopDryRuns(first_contact_index, from_route, bundle, plan, bucket) ==
    IF first_contact_index >= Len(bucket) THEN {}
    ELSE LET c == bucket[first_contact_index + 1]
         IN IF dry_run_tx(plan[c].manager, plan[c].info, from_route.at_time,
                          bundle).ok
            THEN {[contact |-> c, at_time |-> from_route.at_time]}
            ELSE HopDryRuns(first_contact_index + 1, from_route, bundle, plan,
                            bucket)

\* the successful dry runs of one pop of get_next, over the receivers
PopDryRuns(g, st, from) ==
    LET Of(rx, bucket) ==
            LET pruned == lazy_prune_and_get_first_idx(
                              g.contacts, bucket, st.cursor[<<from, rx>>],
                              g.current_time)
            IN IF pruned.idx = NoNode THEN {}
               ELSE HopDryRuns(pruned.idx, st.tree[from], g.bundle,
                               g.contacts, bucket)
    IN UNION {Of(rx, contacts_to_receiver(g.contacts, from, rx)) :
                  rx \in {r \in Receivers(g.contacts, from) :
                              ~(g.with_exclusions /\ r \in g.excluded)}}

RECURSIVE SearchDryRuns(_, _)
\* the successful dry runs of the loop of get_next from the state st on
SearchDryRuns(g, st) ==
    IF st.heap = <<>> THEN {}
    ELSE LET Visit(popped, st1) ==
                 IF ~g.is_tree_output
                    /\ g.bundle.destinations[1] = popped.item
                 THEN {}
                 ELSE PopDryRuns(g, st1, popped.item)
                          \cup SearchDryRuns(g, RelaxReceivers(g, st1,
                                                    popped.item, 0))
             Popped(popped) ==
                 Visit(popped, [st EXCEPT !.heap = popped.data])
         IN Popped(HeapPop(g.distance, st.tree, st.heap))

\* the successful dry runs of get_next of NodeGraphTree for a call
TreeSearchDryRuns(plan, cursors, current_time, source, bundle, excluded) ==
    LET g == [contacts |-> plan, distance |-> "SABR",
              is_tree_output |-> TRUE, with_exclusions |-> TRUE,
              current_time |-> current_time, bundle |-> bundle,
              excluded |-> {excluded[i] : i \in DOMAIN excluded}]
        tree0 == [n \in Nodes |-> IF n = source
                                  THEN RouteStageNew(current_time, source)
                                  ELSE RouteStageNewWorkArea(n)]
    IN SearchDryRuns(g, [tree |-> tree0,
                         heap |-> HeapPush("SABR", tree0, <<>>, source),
                         cursor |-> cursors])

RECURSIVE WalkDryRuns(_, _, _, _, _, _, _)
\* the successful dry runs of the walk of a dry-run variant over a route
WalkDryRuns(plan, tree, bundle, dest, at_time, cur, fuel) ==
    IF cur = NoNode \/ fuel = 0 THEN {}
    ELSE LET Step(r) ==
                 IF ~r.ok THEN {}
                 ELSE {[contact |-> tree[cur].via_contact,
                        at_time |-> at_time]}
                      \cup IF r.stage.to_node = dest THEN {}
                           ELSE WalkDryRuns(plan, tree, bundle, dest,
                                    r.stage.at_time,
                                    r.stage.next_for_destination[dest],
                                    fuel - 1)
         IN Step(StageDryRun(plan, tree[cur], at_time, bundle, FALSE))

RouteDryRuns(plan, tree, bundle, at_time, source) ==
    WalkDryRuns(plan, tree, bundle, bundle.destinations[1], at_time,
                tree[source].next_for_destination[bundle.destinations[1]],
                MaxNode + 1)

\* the successful dry runs of the storage's select on the entry it returns
SelectDryRuns(plan, sel_hit, bundle, curr_time) ==
    IF sel_hit = 0 THEN {}
    ELSE RouteDryRuns(plan,
                      init_route(storage.trees[sel_hit].tree,
                                 bundle.destinations[1]),
                      bundle, curr_time, storage.trees[sel_hit].source)

\* the successful dry runs with the bundle of the call that a call of route
\* issues, on the contacts as they are before the call: r is what the call
\* left in rout
CallDryRuns(r) ==
    IF ~r.fresh
    THEN SelectDryRuns(contacts,
             IF router = "Spsn"
             THEN TreeCacheSelect(storage, contacts, r.bundle, r.curr_time,
                                  r.excluded).hit
             ELSE TableSelect(storage, contacts, r.bundle, r.curr_time,
                              r.excluded).hit,
             r.bundle, r.curr_time)
    ELSE IF router = "Spsn"
    THEN TreeSearchDryRuns(contacts, cursor, r.curr_time, r.source, r.bundle,
                           r.excluded)
    ELSE RouteDryRuns(contacts, init_route(r.search, r.bundle.destinations[1]),
                      r.bundle, r.curr_time, r.source)

\* the schedule_tx calls of update_unicast that returned Some, from the
\* stages they left: [contact, at_time]
ScheduledCalls(r) ==
    {[contact |-> r.path[i].via_contact,
      at_time |-> IF i = 1 THEN r.curr_time ELSE r.path[i - 1].at_time] :
         i \in DOMAIN r.path}

\* the schedule_tx call of update_unicast that returned None, if any
FailedCalls(r) ==
    LET dest == r.bundle.destinations[1]
        next == IF r.path = <<>>
                THEN init_route(r.search, dest)[r.source]
                         .next_for_destination[dest]
                ELSE r.path[Len(r.path)].next_for_destination[dest]
    IN IF r.panic /\ r.fresh /\ next # NoNode
       THEN {[contact |-> r.search[next].via_contact,
              at_time |-> IF r.path = <<>> THEN r.curr_time
                          ELSE r.path[Len(r.path)].at_time]}
       ELSE {}

\* C31: within a call of route, every schedule_tx issued on a contact is
\* preceded in the same call by a dry_run_tx on the same contact with the
\* same bundle and the same at_time that returned Some, no schedule_tx
\* having changed the contact's manager in between (no contact is scheduled
\* twice), on the cache-hit path, the fresh path of Spsn and the path of Cgr.
C31_ScheduleFollowsDryRun ==
    [][(rcalls' = rcalls + 1) =>
          /\ ScheduledCalls(rout') \cup FailedCalls(rout')
                 \subseteq CallDryRuns(rout')
          /\ \A i, j \in DOMAIN rout'.path :
                 rout'.path[i].via_contact = rout'.path[j].via_contact
                     => i = j]_vars

\* C32: the commit step never fails: once a call of route has selected a
\* route (a stored one whose replay succeeded, a fresh tree of Spsn with a
\* route to the destination, a path of Cgr whose dry run succeeded), every
\* schedule of update_unicast succeeds and the walk reaches the destination,
\* so that update_unicast never panics.
C32_CommitNeverFails == ~rout.panic

\* C39: a unicast call of route that returns None leaves every contact
\* manager as it was before the call (queue_size, MAV, free intervals,
\* booking), for both routers and on every None path: guard abort, arrival
\* after the expiration, failed dry run; the storage, the cursors and the
\* guard may change.
C39_NoneLeavesManagers ==
    [][(rcalls' = rcalls + 1 /\ ~rout'.some /\ ~rout'.panic) =>
          contacts' = contacts]_vars

\* a call returned None after an earlier call had booked a contact
C39_Witness ==
    /\ rcalls = 2
    /\ ~rout.some
    /\ ~rout.panic
    /\ rout.fresh
    /\ \E c \in DOMAIN contacts :
           /\ contacts[c].manager.kind \in BasicKinds
           /\ contacts[c].manager.queue_size > 0

\* ---------------------------------------- stages and their parents
\* the delay of a contact of a plan (one delay for the whole contact)
ContactDelay(c) ==
    IF c.manager.kind \in {"Seg", "PSeg"}
    THEN c.manager.delay_intervals[1].val
    ELSE c.manager.delay

\* the hops a call of route left: the relaxed stages of the tree the search
\* returned, and the stages the commit scheduled, each with its parent's
\* at_time and its contact: [at_time, parent_time, contact]
SearchHops(r) ==
    {[at_time |-> r.search[n].at_time,
      parent_time |-> r.search[r.search[n].via_parent].at_time,
      contact |-> r.search[n].via_contact] :
         n \in {x \in Nodes : r.search[x].via_parent # NoNode}}

CommitHops(r) ==
    {[at_time |-> r.path[i].at_time,
      parent_time |-> IF i = 1 THEN r.curr_time ELSE r.path[i - 1].at_time,
      contact |-> r.path[i].via_contact] : i \in DOMAIN r.path}

StageHops(r) == SearchHops(r) \cup CommitHops(r)

LoopPlan(kind) ==
    <<MakeContact(kind, 0, 1, 0, 20, 1, 8),
      MakeContact(kind, 1, 0, 0, 20, 1, 1),
      MakeContact(kind, 1, 2, 0, 20, 1, 1),
      MakeContact(kind, 0, 2, 0, 20, 1, 6),
      MakeContact(kind, 2, 3, 5, 12, 1, 1)>>

LoopPlans == {LoopPlan(kind) : kind \in RouteKinds}

LInit ==
    /\ router \in {"Spsn", "Cgr"}
    /\ contacts \in LoopPlans
    /\ cursor = NoCursor
    /\ storage = TreeCache(FALSE, FALSE, MaxEntries)
    /\ guard = Guard(FALSE)
    /\ rout = NoRoute
    /\ rcalls = 0
    /\ operands = NoOperands
    /\ order = NoOrder
    /\ run = NoRun
    /\ info = ContactInfo(0, 1, ContactStart, ContactEnd)
    /\ manager = BasicTryInit(BasicNew("EVL", 1, 1), info)
    /\ scheduled = 0
    /\ last = NoCall
    /\ ops = 0

LNext ==
    \E bundle \in DetourBundles, curr_time \in RouteTimes,
       excluded \in DetourExclusions : Route(0, bundle, curr_time, excluded)

SpecLoop == LInit /\ [][LNext]_vars

RECURSIVE ViaEnds(_, _, _)
\* following via.parent_route from the stage of node n ends at a stage
\* without via in at most fuel steps
ViaEnds(tree, n, fuel) ==
    \/ tree[n].via_parent = NoNode
    \/ fuel > 0 /\ ViaEnds(tree, tree[n].via_parent, fuel - 1)

\* C35: after a search the via back-pointers of the stages in by_destination
\* form no cycle: from every relaxed stage, following via.parent_route
\* reaches the source stage in finitely many steps, and the source stage is
\* never relaxed (it keeps at_time = current_time and no via), under every
\* manager including the queue-delay ones.
C35_ViaAcyclic ==
    rout.fresh =>
        /\ rout.search[rout.source].via_parent = NoNode
        /\ rout.search[rout.source].at_time = rout.curr_time
        /\ \A n \in Nodes : ViaEnds(rout.search, n, MaxNode)

\* ------------------------------------- the contacts a multicast call books
RECURSIVE TreePathContacts(_, _, _)
\* the contacts on the path of the tree from the source to node n
TreePathContacts(tree, n, fuel) ==
    IF fuel = 0 \/ tree[n].via_parent = NoNode THEN {}
    ELSE {tree[n].via_contact}
             \cup TreePathContacts(tree, tree[n].via_parent, fuel - 1)

\* the tree a multicast call of route works on, r being what the call left
\* in rout: the tree of the search, or the stored tree select returned
MulticastTree(r) ==
    IF r.fresh THEN r.search
    ELSE storage.trees[TreeCacheSelectMulticastFrom(storage, contacts,
                           r.bundle, r.curr_time, r.excluded, 1).hit].tree

\* the destinations dry_run_multicast reports as reached with the bundle
MulticastReached(r) ==
    dry_run_multicast(contacts, MulticastTree(r), r.bundle, r.curr_time,
                      r.source).reached

\* the contacts whose manager the call changed
MutatedContacts ==
    {c \in DOMAIN contacts : contacts'[c].manager # contacts[c].manager}

\* C36: in a multicast call of route, the contacts on which schedule_tx is
\* committed are exactly the contacts on the tree paths from the source to
\* the destinations that dry_run_multicast reported as reached with the
\* bundle: no contact on a branch that leads to unreached destinations only
\* is changed, and every contact on a path to a reached destination is.
C36_MulticastBooksReachedPaths ==
    [][(rcalls' = rcalls + 1 /\ Len(rout'.bundle.destinations) > 1) =>
          MutatedContacts =
              UNION {TreePathContacts(MulticastTree(rout'), d, MaxNode + 1) :
                         d \in MulticastReached(rout')}]_vars

\* ------------------------- priorities: what a dry run of priority p reads
\* two managers agree for priority p: the rate, the delay, the maximum
\* available volume of p and the queues of the priorities from p upwards
AgreeFrom(a, b, p) ==
    /\ a.kind = b.kind
    /\ a.rate = b.rate
    /\ a.delay = b.delay
    /\ get_vol(a.mav, p) = get_vol(b.mav, p)
    /\ \A i \in p .. (NbPriorities - 1) : a.queue_size[i + 1] = b.queue_size[i + 1]

TwinVolumes == {0, 10}

\* managers that agree with m for priority p and differ from it in the
\* queues below p, in the volumes of the other priorities and in the
\* original volume
Twins(m, p) ==
    {[m EXCEPT !.queue_size = <<IF 0 < p THEN a ELSE @[1],
                                IF 1 < p THEN b ELSE @[2], @[3]>>,
               !.mav = [i \in DOMAIN @ |-> IF i = p + 1 THEN @[i] ELSE x],
               !.original_volume = o] :
        a \in TwinVolumes, b \in TwinVolumes, x \in TwinVolumes,
        o \in {0, m.original_volume}}

\* the priority managers the queue delay applies to, one contact each
LaneKinds == {"PETO", "PQD"}

HInit ==
    /\ \E kind \in LaneKinds, cfg \in Configs :
          LET c == ContactTryNew(ContactInfo(0, 1, ContactStart, ContactEnd),
                                 PriorityNew(kind, cfg.rate, cfg.delay, cfg.mav))
          IN /\ c.ok
             /\ info = c.info
             /\ manager = c.manager
    /\ scheduled = 0
    /\ last = NoCall
    /\ ops = 0
    /\ router = "Spsn"
    /\ contacts = <<>>
    /\ cursor = NoCursor
    /\ storage = TreeCache(FALSE, FALSE, MaxEntries)
    /\ guard = Guard(FALSE)
    /\ rout = NoRoute
    /\ rcalls = 0
    /\ operands = NoOperands
    /\ order = NoOrder
    /\ run = NoRun

\* before the contact, in it, and too late for the larger bundles
LaneTimes == {0, ContactStart + 3, ContactEnd - 2}

HNext ==
    \/ \E at_time \in LaneTimes, bundle \in QueueBundles :
          DryRun(at_time, bundle)
    \/ Schedule
    \/ \E bundle \in QueueBundles : Enqueue(bundle)
    \/ \E bundle \in QueueBundles : Dequeue(bundle)

SpecLanes == HInit /\ [][HNext]_vars

\* C37: on the PETO and PQD managers, dry_run_tx of a bundle of priority p
\* gives the same result in every two states of the manager that agree on
\* the rate, the delay, MAV[p] and queue_size[i] for all i >= p, and a
\* schedule_tx, enqueue or dequeue of a bundle of priority q < p leaves
\* all of those components as they were.
C37_LowerPriorityInvisible ==
    [][manager.kind \in LaneKinds =>
          /\ last'.op = "dry_run_tx" =>
                \A t \in Twins(manager', last'.bundle.priority) :
                    /\ AgreeFrom(t, manager', last'.bundle.priority)
                    /\ dry_run_tx(t, info', last'.at_time, last'.bundle) = last'.res
          /\ last'.op \in {"schedule_tx", "enqueue", "dequeue"} =>
                \A p \in Priorities :
                    last'.bundle.priority < p => AgreeFrom(manager', manager, p)]_vars

\* a bundle of a higher priority is admitted behind queued bulk traffic
C37_Witness ==
    /\ manager.kind \in LaneKinds
    /\ last.op = "dry_run_tx"
    /\ last.bundle.priority > 0
    /\ last.res.ok
    /\ manager.queue_size[1] > 0
    /\ Cardinality(Twins(manager, last.bundle.priority)) > 1

\* ===================================================================
\* The rate machine: one contact with a SegmentationManager whose rate
\* changes once, dry runs and schedules
\* ===================================================================
\* a slow segment followed by a fast one, and the reverse
RatePlans ==
    {<<Segment(0, 4, 1), Segment(4, 12, 2)>>,
     <<Segment(0, 4, 2), Segment(4, 12, 1)>>}
RateTimes == {0, 2, 4, 8}
RateBundles == {Bundle(0, <<1>>, 0, s, DateMax) : s \in {2, 6, 12}}

VInit ==
    /\ \E rate_intervals \in RatePlans :
          LET c == ContactTryNew(ContactInfo(0, 1, 0, 12),
                                 SegNew(rate_intervals, <<Segment(0, 12, 1)>>))
          IN /\ c.ok
             /\ info = c.info
             /\ manager = c.manager
    /\ scheduled = 0
    /\ last = NoCall
    /\ ops = 0
    /\ router = "Spsn"
    /\ contacts = <<>>
    /\ cursor = NoCursor
    /\ storage = TreeCache(FALSE, FALSE, MaxEntries)
    /\ guard = Guard(FALSE)
    /\ rout = NoRoute
    /\ rcalls = 0
    /\ operands = NoOperands
    /\ order = NoOrder
    /\ run = NoRun

VNext ==
    \/ \E at_time \in RateTimes, bundle \in RateBundles : DryRun(at_time, bundle)
    \/ Schedule

SpecRate == VInit /\ [][VNext]_vars

RECURSIVE RateIntegralFrom(_, _, _, _)
\* the volume the rate segments carry between the dates a and b
RateIntegralFrom(rate_intervals, a, b, k) ==
    IF k > Len(rate_intervals) THEN 0
    ELSE LET seg == rate_intervals[k]
             lo == Max2(a, seg.start)
             hi == Min2(b, seg.end)
         IN (IF hi > lo THEN seg.val * (hi - lo) ELSE 0)
                + RateIntegralFrom(rate_intervals, a, b, k + 1)

RateIntegral(rate_intervals, a, b) == RateIntegralFrom(rate_intervals, a, b, 1)

\* the free intervals that end at or after at_time and can carry the volume
\* from max(interval.start, at_time) to their end
FittingIntervals(m, at_time, volume) ==
    {k \in DOMAIN m.free_intervals :
        /\ m.free_intervals[k].end >= at_time
        /\ RateIntegral(m.rate_intervals,
                        Max2(m.free_intervals[k].start, at_time),
                        m.free_intervals[k].end) >= volume}

\* C38: dry_run_tx of the SegmentationManager is an exact earliest fit: it
\* returns Some if and only if some free interval ending at or after at_time
\* can carry bundle.size between max(interval.start, at_time) and
\* interval.end with the rate integrated over the rate segments spanned; the
\* result uses the first such interval, and the rate integrated over
\* [tx_start, tx_end] equals bundle.size, also when the transmission crosses
\* from a slower into a faster rate segment.
C38_ExactEarliestFit ==
    (manager.kind = "Seg" /\ last.op = "dry_run_tx") =>
        LET fits == FittingIntervals(manager, last.at_time, last.bundle.size)
        IN /\ last.res.ok <=> fits # {}
           /\ last.res.ok =>
                 LET first == CHOOSE k \in fits : \A j \in fits : k <= j
                 IN /\ last.res.tx_start
                          = Max2(manager.free_intervals[first].start, last.at_time)
                    /\ last.res.tx_end <= manager.free_intervals[first].end
                    /\ RateIntegral(manager.rate_intervals, last.res.tx_start,
                                    last.res.tx_end) = last.bundle.size

\* ===================================================================
\* The arranging machine: a contact plan of three contacts from node 0, no
\* two of them with the same receiver and start, sorted with the ordering
\* of Contact
\* ===================================================================
\* Contact::cmp: tx_node, then rx_node, then start
ContactCmp(first, second) ==
    IF first.info.tx_node > second.info.tx_node THEN 1
    ELSE IF first.info.tx_node < second.info.tx_node THEN -1
    ELSE IF first.info.rx_node > second.info.rx_node THEN 1
    ELSE IF first.info.rx_node < second.info.rx_node THEN -1
    ELSE IF first.info.start > second.info.start THEN 1
    ELSE IF first.info.start < second.info.start THEN -1
    ELSE 0

ArrangeContacts ==
    {MakeContact("EVL", 0, rx, pair[1], pair[2], 1, 1) :
        rx \in {1, 2}, pair \in {w \in {0, 2, 4} \X {4, 6, 8} : w[1] < w[2]}}

AInit ==
    /\ router = "Spsn"
    /\ contacts \in {plan \in [1 .. 3 -> ArrangeContacts] :
                        \A i, j \in 1 .. 3 :
                            i # j => ContactCmp(plan[i], plan[j]) # 0}
    /\ cursor = NoCursor
    /\ storage = TreeCache(FALSE, FALSE, MaxEntries)
    /\ guard = Guard(FALSE)
    /\ rout = NoRoute
    /\ rcalls = 0
    /\ info = ContactInfo(0, 1, 0, 4)
    /\ manager = BasicNew("EVL", 1, 1)
    /\ scheduled = 0
    /\ last = NoCall
    /\ ops = 0
    /\ operands = NoOperands
    /\ order = NoOrder
    /\ run = NoRun

\* the plan is sorted with Contact::cmp before the receiver buckets are
\* filled
Arrange ==
    /\ rcalls = 0
    /\ \E perm \in {f \in [DOMAIN contacts -> DOMAIN contacts] :
                       \A i, j \in DOMAIN contacts : f[i] = f[j] => i = j} :
          LET sorted == [i \in DOMAIN contacts |-> contacts[perm[i]]]
          IN /\ \A i, j \in DOMAIN contacts :
                   i < j => ContactCmp(sorted[i], sorted[j]) <= 0
             /\ contacts' = sorted
    /\ rcalls' = 1
    /\ UNCHANGED <<router, cursor, storage, guard, rout>>
    /\ UNCHANGED mvars
    /\ UNCHANGED cvars

ANext == Arrange

SpecArrange == AInit /\ [][ANext]_vars

\* C40: within every receiver bucket of the multigraph the contacts are
\* ordered by end time ascending, for every contact plan, also when two
\* parallel contacts between the same node pair overlap so that the one that
\* starts earlier ends later; the ordering of Contact used to arrange the
\* contacts yields that order.
C40_BucketsOrderedByEnd ==
    rcalls = 1 =>
        \A i, j \in DOMAIN contacts :
            (/\ i < j
             /\ contacts[i].info.tx_node = contacts[j].info.tx_node
             /\ contacts[i].info.rx_node = contacts[j].info.rx_node)
                => contacts[i].info.end <= contacts[j].info.end

\* ===================================================================
\* The stepwise machine: a call of route that searches, one iteration of
\* the loop of get_next and of the walk of init_route at a time
\* ===================================================================
StepPlans == DetourPlans \cup LoopPlans

KInit ==
    /\ router \in {"Spsn", "Cgr"}
    /\ contacts \in StepPlans
    /\ cursor = NoCursor
    /\ storage = TreeCache(FALSE, FALSE, MaxEntries)
    /\ guard = Guard(FALSE)
    /\ rout = NoRoute
    /\ rcalls = 0
    /\ info = ContactInfo(0, 1, 0, 20)
    /\ manager = BasicNew("EVL", 1, 1)
    /\ scheduled = 0
    /\ last = NoCall
    /\ ops = 0
    /\ operands = NoOperands
    /\ order = NoOrder
    /\ run = NoRun

\* what the call in progress returns and leaves, computed as one piece
RunResult ==
    RouteUnicast(router, RouterState(contacts, cursor, storage, guard),
                 run.source, run.bundle, run.curr_time, run.excluded)

\* the call returns: the state it leaves
Return ==
    /\ Commit(RunResult, run.source, run.bundle, run.curr_time, run.excluded)
    /\ rcalls' = rcalls + 1
    /\ run' = [run EXCEPT !.phase = "done"]
    /\ UNCHANGED <<router, operands, order>>
    /\ UNCHANGED mvars

\* route is called and neither the guard nor select ends the call: get_next
\* starts with the source stage in its queue (Spsn searches a tree with the
\* bundle, Cgr a path with a bundle of size 0 and priority 1)
Begin(source, bundle, curr_time, excluded) ==
    /\ run.phase \in {"idle", "done"}
    /\ rcalls < MaxRoutes
    /\ ~rout.panic
    /\ curr_time >= rout.curr_time
    /\ RouteUnicast(router, RouterState(contacts, cursor, storage, guard),
                    source, bundle, curr_time, excluded).fresh
    /\ LET tree0 == [n \in Nodes |-> IF n = source
                                     THEN RouteStageNew(curr_time, source)
                                     ELSE RouteStageNewWorkArea(n)]
       IN run' = [phase |-> "search", source |-> source, bundle |-> bundle,
                  curr_time |-> curr_time, excluded |-> excluded,
                  g |-> [contacts |-> contacts, distance |-> "SABR",
                         is_tree_output |-> router = "Spsn",
                         with_exclusions |-> router = "Spsn",
                         current_time |-> curr_time,
                         bundle |-> IF router = "Spsn" THEN bundle
                                    ELSE [bundle EXCEPT !.priority = 1,
                                                        !.size = 0],
                         excluded |-> {excluded[i] : i \in DOMAIN excluded}],
                  st |-> [tree |-> tree0,
                          heap |-> HeapPush("SABR", tree0, <<>>, source),
                          cursor |-> cursor],
                  tree |-> tree0, cur |-> NoNode]
    /\ UNCHANGED <<operands, order>>
    /\ UNCHANGED mvars
    /\ UNCHANGED rvars

\* route is called and the guard or the stored tree ends the call
Direct(source, bundle, curr_time, excluded) ==
    /\ run.phase \in {"idle", "done"}
    /\ ~RouteUnicast(router, RouterState(contacts, cursor, storage, guard),
                     source, bundle, curr_time, excluded).fresh
    /\ Route(source, bundle, curr_time, excluded)

\* one iteration of `while let Some(Reverse(from_route)) = priority_queue.pop()`
PopStep ==
    /\ run.phase = "search"
    /\ run.st.heap # <<>>
    /\ LET popped == HeapPop(run.g.distance, run.st.tree, run.st.heap)
       IN run' = IF /\ ~run.g.is_tree_output
                    /\ run.g.bundle.destinations[1] = popped.item
                 THEN [run EXCEPT !.st.heap = popped.data, !.phase = "found"]
                 ELSE [run EXCEPT !.st =
                           RelaxReceivers(run.g,
                               [run.st EXCEPT !.heap = popped.data],
                               popped.item, 0)]
    /\ UNCHANGED <<operands, order>>
    /\ UNCHANGED mvars
    /\ UNCHANGED rvars

\* the queue is empty: get_next returns
SearchEnd ==
    /\ run.phase = "search"
    /\ run.st.heap = <<>>
    /\ run' = [run EXCEPT !.phase = "found"]
    /\ UNCHANGED <<operands, order>>
    /\ UNCHANGED mvars
    /\ UNCHANGED rvars

\* Spsn returns None when the destination is reached after the expiration;
\* otherwise init_route starts on the stage of the destination
Found ==
    /\ run.phase = "found"
    /\ IF /\ router = "Spsn"
          /\ run.st.tree[run.bundle.destinations[1]].at_time
                 > run.bundle.expiration
       THEN Return
       ELSE /\ run' = [run EXCEPT !.phase = "init", !.tree = run.st.tree,
                                  !.cur = run.bundle.destinations[1]]
            /\ UNCHANGED <<operands, order>>
            /\ UNCHANGED mvars
            /\ UNCHANGED rvars

\* one iteration of the walk of init_route: the parent of the stage gets the
\* stage as its next stage for the destination
InitStep ==
    /\ run.phase = "init"
    /\ run.tree[run.cur].via_parent # NoNode
    /\ LET parent == run.tree[run.cur].via_parent
       IN run' = [run EXCEPT
                      !.tree[parent].next_for_destination[
                          run.bundle.destinations[1]] = run.cur,
                      !.cur = parent]
    /\ UNCHANGED <<operands, order>>
    /\ UNCHANGED mvars
    /\ UNCHANGED rvars

\* init_route stands on a stage without via: the route is dry run (Cgr) and
\* scheduled, and the call returns
Finish ==
    /\ run.phase = "init"
    /\ run.tree[run.cur].via_parent = NoNode
    /\ Return

Step == PopStep \/ SearchEnd \/ Found \/ InitStep \/ Finish

KNext ==
    \/ \E bundle \in DetourBundles, curr_time \in RouteTimes,
          excluded \in DetourExclusions : Begin(0, bundle, curr_time, excluded)
    \/ \E bundle \in DetourBundles, curr_time \in RouteTimes,
          excluded \in DetourExclusions : Direct(0, bundle, curr_time, excluded)
    \/ Step

SpecSteps == KInit /\ [][KNext]_vars

\* a call is in progress; exactly then one of the steps is enabled, and it
\* stays the only enabled action until it is taken
Busy == run.phase \in {"search", "found", "init"}

\* a step of the call in progress, whichever it is
Advance == Busy /\ run' # run

\* a call in progress executes its next statement: weak fairness of Step,
\* stated for the steps whose enabling is their guard alone as WF and for
\* Step as a whole with Busy for ENABLED <<Step>>_vars
SpecStepsFair ==
    /\ SpecSteps
    /\ WF_vars(SearchEnd)
    /\ WF_vars(InitStep)
    /\ ([]<>(~Busy) \/ []<><<Advance>>_vars)

\* C33: every call of route terminates, for every finite contact plan and
\* every bundle: the loop of get_next pushes a stage on a strict improvement
\* only and empties its queue, and the search loop of Cgr::route_unicast
\* ends after finitely many rounds of pathfinding, whether or not a route
\* to the destination exists.
C33_RouteTerminates == (run.phase = "search") ~> (run.phase = "done")

====
